---------------------------- MODULE Spec2Model ----------------------------
(***************************************************************************)
(* Model of server.py of Tor-Search-MCP: the three MCP tools get_sources,  *)
(* fetch_pages and fetch_specific_page, the module-level Tor session state *)
(* they share, and the lock _state_lock that serialises them.              *)
(*                                                                         *)
(* Each caller is a thread of the MCP server.  A tool call is a sequence   *)
(* of steps of that thread: the call itself (argument validation that the  *)
(* code does before taking the lock), the acquisition of _state_lock, and  *)
(* the pieces of the locked section that are separated by a blocking call  *)
(* to an external collaborator (Tor launch, search provider, browser).     *)
(* Wall-clock time advances between any two steps.                         *)
(*                                                                         *)
(* Three specifications share the variables:                               *)
(*   Spec       the tools and the session; the fetch is an outcome choice  *)
(*   SpecFetch  one call of _fetch_urls_with_browser, tab by tab           *)
(*   SpecIndex  the indexing loop of get_sources on full-size answers      *)
(* Each keeps the variables of the other two at their idle values.         *)
(***************************************************************************)
EXTENDS Integers, Sequences, FiniteSets, TLC

(***************************************************************************)
(* Bounds of the model.                                                    *)
(***************************************************************************)
NumUrls == 2        \* distinct URLs the search provider can return
MaxHits == 2        \* hits the provider returns for one query (the code asks for at most MAX_RESULTS)
MaxIdxLen == 2      \* length of the enumerated index lists passed to fetch_pages
MaxTime == 121      \* the clock stops advancing here
MaxFetchUrls == 4    \* urls handed to one call of the fetch orchestrator
MaxTabBound == 2     \* largest configured concurrency bound of the fetch orchestrator
MaxStart == 3        \* provider answers of the indexing loop start at url 1..MaxStart + 1
MaxFetchTime == 62   \* the clock of a fetch call stops advancing here
MaxFairUrls == 2     \* urls of the fetch calls followed to their end under fairness
MaxExtractUrls == 2  \* urls of the maps of collected outcomes the extraction loop is run on

Callers == {"c1", "c2"}

(***************************************************************************)
(* Program constants.                                                      *)
(***************************************************************************)
TOR_KEEPALIVE_SECONDS == 120
MAX_QUERIES == 3
MAX_RESULTS == 5
MAX_PAGES == 5
STEM_SOCKS_PORT == 9250
STEM_CONTROL_PORT == 9251

(***************************************************************************)
(* Python's Optional: None is the empty sequence, a value v is <<v>>.      *)
(***************************************************************************)
None == <<>>
Some(v) == <<v>>

URLS == 1..NumUrls

VARIABLES
    tor,                  \* the module globals _tor_process, _tor_socks_port, _tor_control_port,
                          \* _tor_start_time, _tbb_path, _tbb_profile_path
    backend,              \* the fields of the NativeBrowserBackend instance BACKEND
    last_search_results,  \* _last_search_results: sequence of [index, url]
    fetch_pages_called,   \* _fetch_pages_called
    state_lock,           \* _state_lock: TRUE while held
    backend_lock,         \* BACKEND._lock: TRUE while held
    now,                  \* time.time()
    pc,                   \* per caller: where its current tool call stands
    frame,                \* per caller: the locals of its current call (queries left, seen_urls,
                          \* current_index, urls_to_fetch) and, as history, whether its get_sources
                          \* found Tor running
    ret,                  \* what the last step handed back to a caller: the call that ended with
                          \* it and its result or error; NoRet when that step ended no call
    fetchRuns,            \* history: fetch_pages calls that ran the fetch since the last successful get_sources
    lastSearch,           \* history: the urls the provider answered to the last get_sources call that took
                          \* the lock, in the order of their first occurrence, and whether that call returned
    prevFetch,            \* history: how the last fetch_pages call since the last get_sources call ended
    liveTor               \* history: Tor processes launched whose handle was not passed to kill() yet

\* One call of _fetch_urls_with_browser with its helpers _dispatch_batch and _collect_batch.
VARIABLES
    fpc,                  \* where the call stands; "off" while no call is followed
    url_list,             \* the argument urls
    MAX_CONCURRENT_TABS,  \* the configured concurrency bound (browser.max_concurrent_tabs)
    total_start,          \* total_start
    deadline,             \* total_start + overall_timeout
    batch_start,          \* the loop variable i of "for i in range(0, len(urls), MAX_CONCURRENT_TABS)"
    batch,                \* urls[i:i + MAX_CONCURRENT_TABS]
    dispatched,           \* _dispatch_batch: urls of the batch already gone through its loop
    handles,              \* driver.window_handles: the open tabs
    current,              \* the tab the driver is switched to; NoWindow once that tab was closed
    opened,               \* tabs opened so far (names the next handle)
    tab_url_map,          \* tab_url_map of the batch
    pending,              \* _collect_batch: pending
    sweep,                \* the handles of list(pending) the running for loop has still to visit
    collect_start,        \* _collect_batch: start
    batch_results,        \* _collect_batch: results
    all_results,          \* all_results
    fetch_results,        \* results, the returned map
    navigated,            \* history: urls for which driver.get was called
    get_raised,           \* history: the last step called driver.get and it raised
    observed,             \* history: the tab the last step of _collect_batch visited and what the
                          \* driver showed for it, NoObservation when the last step visited none
    extracted,            \* history: what the extractor gave back for each captured page
    tab_dispatch_times,   \* tab_dispatch_times of the batch
    batches,              \* history: the batches handed to _dispatch_batch, in order
    cut,                  \* history: the value of i at which the deadline check cut the loop, NoCut before
    raised                \* history: the exception that reached "except Exception", NotRaised before

\* The indexing loop of get_sources run on provider answers of up to MAX_RESULTS hits.
VARIABLES
    answers,              \* what ddgs.text returns for each query of the call, in order
    answered,             \* queries whose hits were indexed
    indexing              \* seen_urls, _last_search_results and current_index

session == <<tor, backend>>
generation == <<last_search_results, fetch_pages_called>>
threads == <<pc, frame>>
history == <<fetchRuns, lastSearch, prevFetch>>
coordinator == <<tor, backend, last_search_results, fetch_pages_called, state_lock, backend_lock,
                 pc, frame, ret, fetchRuns, lastSearch, prevFetch, liveTor>>
orchestrator == <<fpc, url_list, MAX_CONCURRENT_TABS, total_start, deadline, batch_start, batch,
                  dispatched, handles, current, opened, tab_url_map, pending, sweep, collect_start,
                  batch_results, all_results, fetch_results, navigated, get_raised, observed,
                  extracted, tab_dispatch_times, batches, cut, raised>>
indexer == <<answers, answered, indexing>>
vars == <<coordinator, now, orchestrator, indexer>>

(***************************************************************************)
(* Tor lifecycle: _start_tor, _kill_tor, _check_tor_timeout and the        *)
(* NativeBrowserBackend methods wrapping them.                             *)
(***************************************************************************)
NoTor ==
    [tor_process |-> None, tor_socks_port |-> None, tor_control_port |-> None,
     tor_start_time |-> None, tbb_path |-> None, tbb_profile_path |-> None]

\* What _start_tor can do: store a launched process, or raise one of its three errors.
StartOutcomes == {"ok", "tbb_not_found", "profile_not_found", "launch_failed"}

\* (variant: the start time is not recorded)
start_tor_globals_noTime(g, t) ==
    [tor_process |-> Some("tor"), tor_socks_port |-> Some(STEM_SOCKS_PORT),
     tor_control_port |-> Some(STEM_CONTROL_PORT), tor_start_time |-> None,
     tbb_path |-> Some("tbb"), tbb_profile_path |-> Some("profile")]

\* _start_tor when the launch succeeds: the six globals are stored.
start_tor_globals(g, t) ==
    [tor_process |-> Some("tor"), tor_socks_port |-> Some(STEM_SOCKS_PORT),
     tor_control_port |-> Some(STEM_CONTROL_PORT), tor_start_time |-> Some(t),
     tbb_path |-> Some("tbb"), tbb_profile_path |-> Some("profile")]

\* (variant: the process handle is kept)
kill_tor_keep(g) == g

\* _kill_tor: with a process held, kill it (an error of kill() is swallowed) and
\* clear process, ports and start time; the two paths are left alone.
kill_tor(g) ==
    IF g.tor_process # None
    THEN [g EXCEPT !.tor_process = None, !.tor_socks_port = None,
                   !.tor_control_port = None, !.tor_start_time = None]
    ELSE g

\* _tor_process.kill() returns or raises
KillOutcomes == {"killed", "kill_raised"}

\* ... when _kill_tor runs on the globals g: without a process kill() is not called
KillOutcomesOf(g) == IF g.tor_process # None THEN KillOutcomes ELSE {"not_called"}

\* (variant: the error of kill() is not caught)
kill_tor_raises_uncaught(g, k) == g.tor_process # None /\ k = "kill_raised"

\* Whether an exception leaves _kill_tor when kill() ends as k: "except
\* Exception: pass" catches the error of kill(), the finally clause raises none.
kill_tor_raises(g, k) == FALSE

\* The result of a call one of whose steps ran _kill_tor on the globals g: an
\* exception that left _kill_tor would leave stop_tor and be the result.
Stopped(result, g, k) == IF kill_tor_raises(g, k) THEN "stop_raised" ELSE result

\* BACKEND.is_tor_running()
is_tor_running(g) == g.tor_process # None

\* (variant: a session exactly TOR_KEEPALIVE_SECONDS old has expired)
Expired_atLimit(g, t) == t - g.tor_start_time[1] >= TOR_KEEPALIVE_SECONDS

\* elapsed > TOR_KEEPALIVE_SECONDS in _check_tor_timeout
Expired(g, t) == t - g.tor_start_time[1] > TOR_KEEPALIVE_SECONDS

\* (variant: no session counts as a valid one)
check_tor_timeout_noSession(g, t) ==
    IF g.tor_process = None \/ g.tor_start_time = None THEN TRUE
    ELSE ~Expired(g, t)

\* _check_tor_timeout: the value it returns ...
check_tor_timeout(g, t) ==
    IF g.tor_process = None \/ g.tor_start_time = None THEN FALSE
    ELSE ~Expired(g, t)

\* (variant: an expired session is not killed)
check_tor_timeout_globals_nokill(g, t) == g

\* ... and the globals it leaves.
check_tor_timeout_globals(g, t) ==
    IF g.tor_process = None \/ g.tor_start_time = None THEN g
    ELSE IF Expired(g, t) THEN kill_tor(g) ELSE g

\* NativeBrowserBackend.start_tor after _start_tor returned: copy the globals.
backend_start_tor(b, g) ==
    [tor_process |-> g.tor_process, tor_socks_port |-> g.tor_socks_port,
     tor_control_port |-> g.tor_control_port, tor_start_time |-> g.tor_start_time,
     tbb_path |-> g.tbb_path, tbb_profile_path |-> g.tbb_profile_path]

\* NativeBrowserBackend.stop_tor: _kill_tor(), then clear the backend's own four fields.
backend_stop_tor(b) ==
    [b EXCEPT !.tor_process = None, !.tor_socks_port = None,
              !.tor_control_port = None, !.tor_start_time = None]

\* (variant: a running session is not stopped)
StopIfRunningGlobals_skip(g) == g

\* "if BACKEND.is_tor_running(): BACKEND.stop_tor()" at the head of get_sources
\* and fetch_specific_page.
StopIfRunningGlobals(g) == IF is_tor_running(g) THEN kill_tor(g) ELSE g
StopIfRunningBackend(g, b) == IF is_tor_running(g) THEN backend_stop_tor(b) ELSE b

(***************************************************************************)
(* get_sources: the indexing loop over the provider's answers.             *)
(***************************************************************************)
Min(a, b) == IF a < b THEN a ELSE b

\* list(ddgs.text(query, ..., max_results=5)): the hrefs of up to MAX_RESULTS hits,
\* repetitions included.
HitLists == UNION {[1..n -> URLS] : n \in 0..Min(MaxHits, MAX_RESULTS)}

\* (variant: no url is skipped)
RECURSIVE IndexHits_noDedup(_, _)
IndexHits_noDedup(hits, st) ==
    IF hits = <<>> THEN st
    ELSE IndexHits_noDedup(Tail(hits),
                           [seen_urls |-> st.seen_urls \cup {Head(hits)},
                            results |-> Append(st.results,
                                               [index |-> st.current_index, url |-> Head(hits)]),
                            current_index |-> st.current_index + 1])

\* (variant: current_index is not counted on)
RECURSIVE IndexHits_noCount(_, _)
IndexHits_noCount(hits, st) ==
    IF hits = <<>> THEN st
    ELSE LET url == Head(hits) IN
         IF url \in st.seen_urls
         THEN IndexHits_noCount(Tail(hits), st)
         ELSE IndexHits_noCount(Tail(hits),
                                [seen_urls |-> st.seen_urls \cup {url},
                                 results |-> Append(st.results,
                                                    [index |-> st.current_index, url |-> url]),
                                 current_index |-> st.current_index])

\* "for r in results:" of get_sources: skip a url already seen, else record it
\* under current_index and count on.  st = [seen_urls, results, current_index].
RECURSIVE IndexHits(_, _)
IndexHits(hits, st) ==
    IF hits = <<>> THEN st
    ELSE LET url == Head(hits) IN
         IF url \in st.seen_urls
         THEN IndexHits(Tail(hits), st)
         ELSE IndexHits(Tail(hits),
                        [seen_urls |-> st.seen_urls \cup {url},
                         results |-> Append(st.results, [index |-> st.current_index, url |-> url]),
                         current_index |-> st.current_index + 1])

(***************************************************************************)
(* fetch_pages: the checks made under the lock, in the order of the code.  *)
(***************************************************************************)
Range(s) == {s[i] : i \in DOMAIN s}

\* the index lists a caller passes: every list of up to MaxIdxLen indexes, one of
\* them beyond the stored ones, and two lists of MAX_PAGES + 1 indexes, one of
\* which ends with the index beyond the stored ones
IndexLists ==
    UNION {[1..n -> 1..(NumUrls + 1)] : n \in 0..MaxIdxLen}
        \cup {[i \in 1..(MAX_PAGES + 1) |-> 1],
              [i \in 1..(MAX_PAGES + 1) |-> IF i > MAX_PAGES THEN NumUrls + 1 ELSE 1]}

valid_indexes(results) == {results[i].index : i \in DOMAIN results}

\* (variant: the urls are taken in the order of the indexes, once for each)
RECURSIVE urls_to_fetch_asRequested(_, _)
urls_to_fetch_asRequested(results, indexes) ==
    IF indexes = <<>> THEN <<>>
    ELSE LET found == {i \in DOMAIN results : results[i].index = Head(indexes)}
         IN (IF found = {} THEN <<>> ELSE <<results[CHOOSE i \in found : TRUE].url>>)
                \o urls_to_fetch_asRequested(results, Tail(indexes))

\* "for item in _last_search_results: if item["index"] in indexes:
\* urls_to_fetch.append(item["url"])"
RECURSIVE urls_to_fetch(_, _)
urls_to_fetch(results, indexes) ==
    IF results = <<>> THEN <<>>
    ELSE IF Head(results).index \in Range(indexes)
         THEN <<Head(results).url>> \o urls_to_fetch(Tail(results), indexes)
         ELSE urls_to_fetch(Tail(results), indexes)

\* (variant: the already-fetched check is missing)
FetchPagesCheck_noCalledCheck(results, called, g, t, indexes) ==
    IF results = <<>> THEN "no_search_results"
    ELSE IF ~check_tor_timeout(g, t) THEN "tor_timeout"
    ELSE IF Len(indexes) > MAX_PAGES THEN "too_many_indexes"
    ELSE IF \E i \in DOMAIN indexes : indexes[i] \notin valid_indexes(results) THEN "invalid_index"
    ELSE IF urls_to_fetch(results, indexes) = <<>> THEN "no_valid_urls"
    ELSE "fetch"

\* (variant: the no-search-results check is missing)
FetchPagesCheck_noEmptyCheck(results, called, g, t, indexes) ==
    IF called THEN "already_fetched"
    ELSE IF ~check_tor_timeout(g, t) THEN "tor_timeout"
    ELSE IF Len(indexes) > MAX_PAGES THEN "too_many_indexes"
    ELSE IF \E i \in DOMAIN indexes : indexes[i] \notin valid_indexes(results) THEN "invalid_index"
    ELSE IF urls_to_fetch(results, indexes) = <<>> THEN "no_valid_urls"
    ELSE "fetch"

\* (variant: the check of the number of indexes is missing)
FetchPagesCheck_noCountCheck(results, called, g, t, indexes) ==
    IF results = <<>> THEN "no_search_results"
    ELSE IF called THEN "already_fetched"
    ELSE IF ~check_tor_timeout(g, t) THEN "tor_timeout"
    ELSE IF \E i \in DOMAIN indexes : indexes[i] \notin valid_indexes(results) THEN "invalid_index"
    ELSE IF urls_to_fetch(results, indexes) = <<>> THEN "no_valid_urls"
    ELSE "fetch"

\* (variant: an index that is not stored is skipped)
FetchPagesCheck_noIndexCheck(results, called, g, t, indexes) ==
    IF results = <<>> THEN "no_search_results"
    ELSE IF called THEN "already_fetched"
    ELSE IF ~check_tor_timeout(g, t) THEN "tor_timeout"
    ELSE IF Len(indexes) > MAX_PAGES THEN "too_many_indexes"
    ELSE IF urls_to_fetch(results, indexes) = <<>> THEN "no_valid_urls"
    ELSE "fetch"

\* (variant: the idle timeout is checked before the fetched flag)
FetchPagesCheck_timeoutFirst(results, called, g, t, indexes) ==
    IF results = <<>> THEN "no_search_results"
    ELSE IF ~check_tor_timeout(g, t) THEN "tor_timeout"
    ELSE IF called THEN "already_fetched"
    ELSE IF Len(indexes) > MAX_PAGES THEN "too_many_indexes"
    ELSE IF \E i \in DOMAIN indexes : indexes[i] \notin valid_indexes(results) THEN "invalid_index"
    ELSE IF urls_to_fetch(results, indexes) = <<>> THEN "no_valid_urls"
    ELSE "fetch"

\* The first check of fetch_pages that fails names the error; "fetch" when none does.
FetchPagesCheck(results, called, g, t, indexes) ==
    IF results = <<>> THEN "no_search_results"
    ELSE IF called THEN "already_fetched"
    ELSE IF ~check_tor_timeout(g, t) THEN "tor_timeout"
    ELSE IF Len(indexes) > MAX_PAGES THEN "too_many_indexes"
    ELSE IF \E i \in DOMAIN indexes : indexes[i] \notin valid_indexes(results) THEN "invalid_index"
    ELSE IF urls_to_fetch(results, indexes) = <<>> THEN "no_valid_urls"
    ELSE "fetch"

\* the checks of fetch_pages that are made on the argument
IndexErrors == {"too_many_indexes", "invalid_index", "no_valid_urls"}

\* sorted(valid_indexes)
Sorted(S) == [k \in 1..Cardinality(S) |-> CHOOSE x \in S : Cardinality({y \in S : y < x}) = k - 1]

\* "for idx in indexes: if idx not in valid_indexes": the idx that raises
FirstInvalid(results, indexes) ==
    indexes[CHOOSE i \in DOMAIN indexes :
                /\ indexes[i] \notin valid_indexes(results)
                /\ \A j \in 1..(i - 1) : indexes[j] \in valid_indexes(results)]

\* What the message of an error of fetch_pages states: "You requested
\* {len(indexes)}"; "Invalid index {idx}. Valid indexes are: {sorted(valid_indexes)}".
FetchPagesMessage(results, indexes, error) ==
    CASE error = "too_many_indexes" ->
             [requested |-> Some(Len(indexes)), invalid |-> None, valid |-> None,
              error_type |-> None]
      [] error = "invalid_index" ->
             [requested |-> None, invalid |-> Some(FirstInvalid(results, indexes)),
              valid |-> Some(Sorted(valid_indexes(results))), error_type |-> None]
      [] OTHER -> [requested |-> None, invalid |-> None, valid |-> None, error_type |-> None]

\* (variant: the checks leave no session behind)
FetchPagesCheckGlobals_stop(results, called, g, t) == kill_tor(g)

\* (variant: the idle timeout is checked ahead of the other checks)
FetchPagesCheckGlobals_timeoutFirst(results, called, g, t) == check_tor_timeout_globals(g, t)

\* BACKEND.check_tor_timeout() is reached, and may kill Tor, only after the first two checks.
FetchPagesCheckGlobals(results, called, g, t) ==
    IF results # <<>> /\ ~called THEN check_tor_timeout_globals(g, t) ELSE g

\* (variant: the flag is left as it was)
MarkFetched_unset(called) == called

\* _fetch_pages_called after the checks passed ("Mark as fetched")
MarkFetched(called) == TRUE

(***************************************************************************)
(* The callers.                                                            *)
(***************************************************************************)
NoMessage == [requested |-> None, invalid |-> None, valid |-> None, error_type |-> None]

NoRet ==
    [caller |-> "", op |-> "", result |-> "none", arg |-> None, fetched |-> None,
     message |-> NoMessage]

NoFrame ==
    [queries |-> <<>>, seen_urls |-> {}, current_index |-> 0, indexes |-> <<>>,
     urls_to_fetch |-> <<>>, restarted |-> FALSE]

LockedPcs == {"gs_start", "gs_search", "fp_check", "fp_fetch", "fsp_start", "fsp_fetch"}

\* driver.current_window_handle has no tab to name
NoWindow == 0

\* the batch loop was not left early
NoCut == -1

\* no exception reached the except clause of _fetch_urls_with_browser
NotRaised == "none"

\* the last step visited no tab
NoObservation == [handle |-> NoWindow, obs |-> "none"]

\* {}, the empty dict
EmptyMap == [x \in {} |-> ""]

\* no call of _fetch_urls_with_browser is followed
OrchestratorOff ==
    /\ fpc = "off"
    /\ url_list = <<>>
    /\ MAX_CONCURRENT_TABS = 5
    /\ total_start = 0
    /\ deadline = 0
    /\ batch_start = 0
    /\ batch = <<>>
    /\ dispatched = 0
    /\ handles = {}
    /\ current = NoWindow
    /\ opened = 0
    /\ tab_url_map = EmptyMap
    /\ pending = {}
    /\ sweep = {}
    /\ collect_start = 0
    /\ batch_results = EmptyMap
    /\ all_results = EmptyMap
    /\ fetch_results = EmptyMap
    /\ navigated = {}
    /\ get_raised = FALSE
    /\ observed = NoObservation
    /\ extracted = EmptyMap
    /\ tab_dispatch_times = EmptyMap
    /\ batches = <<>>
    /\ cut = NoCut
    /\ raised = NotRaised

\* no indexing loop is followed
IndexerOff ==
    /\ answers = <<>>
    /\ answered = 0
    /\ indexing = [seen_urls |-> {}, results |-> <<>>, current_index |-> 1]

\* history: the handles held after kill_tor took the globals g to g2
AfterKill(n, g, g2) == IF g.tor_process # None /\ g2.tor_process = None THEN n - 1 ELSE n

\* the server after import: no session, no stored results, every caller idle
CoordinatorIdle ==
    /\ last_search_results = <<>>
    /\ fetch_pages_called = FALSE
    /\ state_lock = FALSE
    /\ backend_lock = FALSE
    /\ pc = [t \in Callers |-> "idle"]
    /\ frame = [t \in Callers |-> NoFrame]
    /\ ret = NoRet
    /\ fetchRuns = 0
    /\ lastSearch = [urls |-> <<>>, ok |-> FALSE]
    /\ prevFetch = "none"

Init ==
    /\ OrchestratorOff
    /\ IndexerOff
    /\ CoordinatorIdle
    /\ liveTor = 0
    /\ tor = NoTor
    /\ backend = NoTor
    /\ now = 0

\* (variant: the lock is taken without waiting for it)
acquire_nowait(locked) == TRUE

\* "with _state_lock:" blocks until the lock is free, then holds it.
acquire(locked) == locked = FALSE

\* The call ends: the caller is idle again with its result or error.
Finish(t, op, result) ==
    /\ pc' = [pc EXCEPT ![t] = "idle"]
    /\ frame' = [frame EXCEPT ![t] = NoFrame]
    /\ ret' = [NoRet EXCEPT !.caller = t, !.op = op, !.result = result]

\* The call ends with an error raised by a check of its argument: as history,
\* ret keeps the argument, and it holds what the message states.
Reject(t, op, error, arg, message) ==
    /\ pc' = [pc EXCEPT ![t] = "idle"]
    /\ frame' = [frame EXCEPT ![t] = NoFrame]
    /\ ret' = [NoRet EXCEPT !.caller = t, !.op = op, !.result = error, !.arg = Some(arg),
                            !.message = message]

\* ... leaving the "with _state_lock:" block.
FinishLocked(t, op, result) ==
    /\ Finish(t, op, result)
    /\ state_lock' = FALSE

\* the first n queries of a call
Queries(n) == [i \in 1..n |-> i]

\* (variant: the upper limit is not checked)
GetSourcesCheck_noLimit(queries) ==
    IF Len(queries) = 0 THEN "no_queries"
    ELSE "ok"

\* "Validate queries": the two checks of get_sources on its argument
GetSourcesCheck(queries) ==
    IF Len(queries) = 0 THEN "no_queries"
    ELSE IF Len(queries) > 3 THEN "too_many_queries"
    ELSE "ok"

\* get_sources(queries), up to the lock: the two argument checks.
GetSourcesCall(t) ==
    /\ pc[t] = "idle"
    /\ \E n \in 0..(MAX_QUERIES + 1) :
         LET o == GetSourcesCheck(Queries(n)) IN
         IF o # "ok"
         THEN /\ Reject(t, "get_sources", o, Queries(n), NoMessage)
              /\ prevFetch' = "none"
         ELSE /\ pc' = [pc EXCEPT ![t] = "gs_wait"]
              /\ frame' = [frame EXCEPT ![t] = [NoFrame EXCEPT !.queries = Queries(n)]]
              /\ ret' = NoRet
              /\ UNCHANGED prevFetch
    /\ UNCHANGED <<session, generation, state_lock, now, fetchRuns, lastSearch, liveTor>>
    /\ UNCHANGED <<backend_lock, orchestrator, indexer>>

GsAcquire(t) ==
    /\ pc[t] = "gs_wait"
    /\ acquire(state_lock)
    /\ state_lock' = TRUE
    /\ pc' = [pc EXCEPT ![t] = "gs_start"]
    /\ ret' = NoRet
    /\ UNCHANGED <<session, generation, now, frame, history, liveTor>>
    /\ UNCHANGED <<backend_lock, orchestrator, indexer>>

\* get_sources: stop Tor if running, start it; then the fresh seen_urls,
\* _last_search_results and current_index.  A start error stops Tor and is raised.
GsStart(t) ==
    /\ pc[t] = "gs_start"
    /\ prevFetch' = "none"
    /\ lastSearch' = [urls |-> <<>>, ok |-> FALSE]
    /\ LET g1 == StopIfRunningGlobals(tor)
           b1 == StopIfRunningBackend(tor, backend)
       IN \E o \in StartOutcomes, k \in KillOutcomesOf(tor) :
            IF o = "ok" /\ ~kill_tor_raises(tor, k)
            THEN /\ tor' = start_tor_globals(g1, now)
                 /\ backend' = backend_start_tor(b1, tor')
                 /\ last_search_results' = <<>>
                 /\ frame' = [frame EXCEPT ![t].seen_urls = {}, ![t].current_index = 1,
                                            ![t].restarted = is_tor_running(tor)]
                 /\ pc' = [pc EXCEPT ![t] = "gs_search"]
                 /\ ret' = NoRet
                 /\ liveTor' = AfterKill(liveTor, tor, g1) + 1
                 /\ UNCHANGED <<fetch_pages_called, state_lock>>
            ELSE /\ tor' = kill_tor(g1)
                 /\ backend' = backend_stop_tor(b1)
                 /\ FinishLocked(t, "get_sources", Stopped(o, tor, k))
                 /\ liveTor' = AfterKill(AfterKill(liveTor, tor, g1), g1, tor')
                 /\ UNCHANGED generation
    /\ UNCHANGED <<now, fetchRuns>>
    /\ UNCHANGED <<backend_lock, orchestrator, indexer>>

\* (variant: the flag is left as it was)
ResetFetchFlag_keep(called) == called

\* _fetch_pages_called after the last query was indexed ("Reset fetch flag")
ResetFetchFlag(called) == FALSE

\* The elements of s in the order of their first occurrence (history only).
FirstOccurrences(s) ==
    LET keep == {i \in DOMAIN s : \A j \in 1..(i - 1) : s[j] # s[i]}
        nth(k) == CHOOSE i \in keep : Cardinality({j \in keep : j <= i}) = k
    IN [k \in 1..Cardinality(keep) |-> s[nth(k)]]

\* One turn of "for query in queries:": the provider raises, or its hits are
\* indexed; after the last query the fetch flag is reset and the call returns.
\* An error stops Tor and is raised.
GsQuery(t) ==
    /\ pc[t] = "gs_search"
    /\ \/ /\ tor' = kill_tor(tor)
          /\ backend' = backend_stop_tor(backend)
          /\ \E k \in KillOutcomesOf(tor) :
               FinishLocked(t, "get_sources", Stopped("search_error", tor, k))
          /\ liveTor' = AfterKill(liveTor, tor, tor')
          /\ UNCHANGED <<generation, fetchRuns, lastSearch>>
       \/ \E hits \in HitLists :
            LET st == IndexHits(hits, [seen_urls |-> frame[t].seen_urls,
                                       results |-> last_search_results,
                                       current_index |-> frame[t].current_index])
                last == Len(frame[t].queries) = 1
            IN /\ last_search_results' = st.results
               /\ lastSearch' = [urls |-> FirstOccurrences(lastSearch.urls \o hits), ok |-> last]
               /\ IF last
                  THEN /\ fetch_pages_called' = ResetFetchFlag(fetch_pages_called)
                       /\ fetchRuns' = 0
                       /\ FinishLocked(t, "get_sources", "ok")
                  ELSE /\ frame' = [frame EXCEPT ![t].queries = Tail(@),
                                                 ![t].seen_urls = st.seen_urls,
                                                 ![t].current_index = st.current_index]
                       /\ ret' = NoRet
                       /\ UNCHANGED <<fetch_pages_called, fetchRuns, pc, state_lock>>
               /\ UNCHANGED <<session, liveTor>>
    /\ UNCHANGED <<now, prevFetch>>
    /\ UNCHANGED <<backend_lock, orchestrator, indexer>>

\* fetch_pages(indexes), up to the lock.
FetchPagesCall(t) ==
    /\ pc[t] = "idle"
    /\ pc' = [pc EXCEPT ![t] = "fp_wait"]
    /\ ret' = NoRet
    /\ UNCHANGED <<session, generation, state_lock, now, frame, history, liveTor>>
    /\ UNCHANGED <<backend_lock, orchestrator, indexer>>

FpAcquire(t) ==
    /\ pc[t] = "fp_wait"
    /\ acquire(state_lock)
    /\ state_lock' = TRUE
    /\ pc' = [pc EXCEPT ![t] = "fp_check"]
    /\ ret' = NoRet
    /\ UNCHANGED <<session, generation, now, frame, history, liveTor>>
    /\ UNCHANGED <<backend_lock, orchestrator, indexer>>

\* fetch_pages: the checks on the state and on the indexes; when all pass, the
\* urls are extracted and the call is marked as fetched.
FpCheck(t) ==
    /\ pc[t] = "fp_check"
    /\ LET g2 == FetchPagesCheckGlobals(last_search_results, fetch_pages_called, tor, now)
           killed == IF g2 # tor THEN tor ELSE NoTor
       IN \E indexes \in IndexLists, k \in KillOutcomesOf(killed) :
         LET o == Stopped(FetchPagesCheck(last_search_results, fetch_pages_called, tor, now,
                                          indexes), killed, k)
         IN /\ tor' = g2
            /\ IF o = "fetch"
               THEN /\ fetch_pages_called' = MarkFetched(fetch_pages_called)
                    /\ frame' = [frame EXCEPT ![t].indexes = indexes,
                                               ![t].urls_to_fetch =
                                                  urls_to_fetch(last_search_results, indexes)]
                    /\ pc' = [pc EXCEPT ![t] = "fp_fetch"]
                    /\ fetchRuns' = fetchRuns + 1
                    /\ prevFetch' = "passed"
                    /\ ret' = NoRet
                    /\ UNCHANGED state_lock
               ELSE /\ IF o \in IndexErrors
                       THEN /\ Reject(t, "fetch_pages", o, indexes,
                                      FetchPagesMessage(last_search_results, indexes, o))
                            /\ state_lock' = FALSE
                       ELSE FinishLocked(t, "fetch_pages", o)
                    /\ prevFetch' = "rejected"
                    /\ UNCHANGED <<fetch_pages_called, fetchRuns>>
    /\ liveTor' = AfterKill(liveTor, tor, tor')
    /\ UNCHANGED <<backend, last_search_results, now, lastSearch>>
    /\ UNCHANGED <<backend_lock, orchestrator, indexer>>

\* BACKEND.fetch_urls(...) as fetch_pages sees it: a map holding page content, a
\* map holding error records only, or an exception
FetchUrlsOutcomes == {"content", "errors", "raised"}

\* fetch_pages: the fetch, the formatting of its outcomes, and the finally clause.
FpFetch(t) ==
    /\ pc[t] = "fp_fetch"
    /\ \E o \in FetchUrlsOutcomes, k \in KillOutcomesOf(tor) :
         FinishLocked(t, "fetch_pages",
                      Stopped(IF o = "raised" THEN "fetch_raised" ELSE "ok", tor, k))
    /\ tor' = kill_tor(tor)
    /\ backend' = backend_stop_tor(backend)
    /\ liveTor' = AfterKill(liveTor, tor, tor')
    /\ UNCHANGED <<generation, now, history>>
    /\ UNCHANGED <<backend_lock, orchestrator, indexer>>

\* fetch_specific_page(url), up to the lock.
FetchSpecificPageCall(t) ==
    /\ pc[t] = "idle"
    /\ pc' = [pc EXCEPT ![t] = "fsp_wait"]
    /\ ret' = NoRet
    /\ UNCHANGED <<session, generation, state_lock, now, frame, history, liveTor>>
    /\ UNCHANGED <<backend_lock, orchestrator, indexer>>

FspAcquire(t) ==
    /\ pc[t] = "fsp_wait"
    /\ acquire(state_lock)
    /\ state_lock' = TRUE
    /\ pc' = [pc EXCEPT ![t] = "fsp_start"]
    /\ ret' = NoRet
    /\ UNCHANGED <<session, generation, now, frame, history, liveTor>>
    /\ UNCHANGED <<backend_lock, orchestrator, indexer>>

\* fetch_specific_page: stop Tor if running, start it; a start error is raised
\* through the finally clause.
FspStart(t) ==
    /\ pc[t] = "fsp_start"
    /\ LET g1 == StopIfRunningGlobals(tor)
           b1 == StopIfRunningBackend(tor, backend)
       IN \E o \in StartOutcomes, k \in KillOutcomesOf(tor) :
            IF o = "ok" /\ ~kill_tor_raises(tor, k)
            THEN /\ tor' = start_tor_globals(g1, now)
                 /\ backend' = backend_start_tor(b1, tor')
                 /\ pc' = [pc EXCEPT ![t] = "fsp_fetch"]
                 /\ ret' = NoRet
                 /\ liveTor' = AfterKill(liveTor, tor, g1) + 1
                 /\ UNCHANGED <<state_lock, frame>>
            ELSE /\ tor' = kill_tor(g1)
                 /\ backend' = backend_stop_tor(b1)
                 /\ FinishLocked(t, "fetch_specific_page", Stopped(o, tor, k))
                 /\ liveTor' = AfterKill(AfterKill(liveTor, tor, g1), g1, tor')
    /\ UNCHANGED <<generation, now, history>>
    /\ UNCHANGED <<backend_lock, orchestrator, indexer>>

\* what a returned map holds for a url: the extracted text or an error record
FinalOutcomes ==
    {"text", "extraction_error", "tab_error", "script_error", "connection_error",
     "empty_response", "capture_error", "timeout", "browser_error"}

\* results.get(url) in fetch_specific_page: extracted text, an error record, no
\* entry; or fetch_urls raised
PageOutcomes == FinalOutcomes \cup {"missing", "raised"}

\* (variant: an error record is formatted into the returned text, as in fetch_pages)
PageResult_embedded(o) ==
    CASE o = "missing" -> "no_content"
      [] o = "raised" -> "fetch_raised"
      [] OTHER -> "ok"

\* what fetch_specific_page returns or raises for each: a str is returned, a
\* dict and None raise RuntimeError, an exception of fetch_urls goes on
PageResult(o) ==
    CASE o = "text" -> "ok"
      [] o = "missing" -> "no_content"
      [] o = "raised" -> "fetch_raised"
      [] OTHER -> "fetch_failed"

\* "Failed to fetch page: [{error_type}] {error_msg}"
PageMessage(o) ==
    IF o \in FinalOutcomes \ {"text"} THEN [NoMessage EXCEPT !.error_type = Some(o)]
    ELSE NoMessage

\* The call ends after the fetch and the stop of the finally clause: as history,
\* ret keeps how the fetch ended.
FinishFetched(t, o, k) ==
    /\ pc' = [pc EXCEPT ![t] = "idle"]
    /\ frame' = [frame EXCEPT ![t] = NoFrame]
    /\ ret' = [NoRet EXCEPT !.caller = t, !.op = "fetch_specific_page",
                            !.result = Stopped(PageResult(o), tor, k), !.fetched = Some(o),
                            !.message = PageMessage(o)]
    /\ state_lock' = FALSE

\* (variant: the call marks the generation as fetched, as fetch_pages does)
FspFetch_marks(t) ==
    /\ pc[t] = "fsp_fetch"
    /\ \E o \in PageOutcomes, k \in KillOutcomesOf(tor) : FinishFetched(t, o, k)
    /\ tor' = kill_tor(tor)
    /\ backend' = backend_stop_tor(backend)
    /\ liveTor' = AfterKill(liveTor, tor, tor')
    /\ fetch_pages_called' = TRUE
    /\ UNCHANGED <<last_search_results, now, history>>
    /\ UNCHANGED <<backend_lock, orchestrator, indexer>>

\* fetch_specific_page: the fetch of the one url and the finally clause.
FspFetch(t) ==
    /\ pc[t] = "fsp_fetch"
    /\ \E o \in PageOutcomes, k \in KillOutcomesOf(tor) : FinishFetched(t, o, k)
    /\ tor' = kill_tor(tor)
    /\ backend' = backend_stop_tor(backend)
    /\ liveTor' = AfterKill(liveTor, tor, tor')
    /\ UNCHANGED <<generation, now, history>>
    /\ UNCHANGED <<backend_lock, orchestrator, indexer>>

\* time.time() moves on between any two steps
TickSteps == {TOR_KEEPALIVE_SECONDS \div 2, TOR_KEEPALIVE_SECONDS \div 2 + 1}

Tick ==
    /\ \E d \in TickSteps :
         /\ now + d <= MaxTime
         /\ now' = now + d
    /\ ret' = NoRet
    /\ UNCHANGED <<session, generation, state_lock, threads, history, liveTor>>
    /\ UNCHANGED <<backend_lock, orchestrator, indexer>>

Next ==
    \/ \E t \in Callers :
         \/ GetSourcesCall(t)
         \/ GsAcquire(t)
         \/ GsStart(t)
         \/ GsQuery(t)
         \/ FetchPagesCall(t)
         \/ FpAcquire(t)
         \/ FpCheck(t)
         \/ FpFetch(t)
         \/ FetchSpecificPageCall(t)
         \/ FspAcquire(t)
         \/ FspStart(t)
         \/ FspFetch(t)
    \/ Tick

Spec == Init /\ [][Next]_vars

(***************************************************************************)
(* _fetch_urls_with_browser: the browser is started, the urls are fetched  *)
(* batch by batch (_dispatch_batch, then _collect_batch), the captured     *)
(* pages are extracted, the browser is quit.  The driver is an external    *)
(* collaborator: each of its calls answers or raises.                      *)
(***************************************************************************)
DEFAULT_PAGE_TIMEOUT == 10
DEFAULT_OVERALL_TIMEOUT == 60

\* fetch_pages passes 1 to MAX_PAGES distinct urls, fetch_specific_page one
UrlNames == <<"u1", "u2", "u3", "u4", "u5">>
UrlLists == {SubSeq(UrlNames, 1, n) : n \in 1..Min(MaxFetchUrls, MAX_PAGES)}

\* browser.max_concurrent_tabs of config.toml; every value from MAX_PAGES on
\* puts all urls of a call in one batch
TabBounds == 1..Min(MaxTabBound, MAX_PAGES)

\* results[url] = outcome
SetOutcome(map, url, outcome) == (url :> outcome) @@ map

\* all_results.update(batch_results)
Update(map, other) == other @@ map

\* urls[i:i + MAX_CONCURRENT_TABS]
BatchOf(urls, i, n) == SubSeq(urls, i + 1, Min(i + n, Len(urls)))

\* (variant: the loop moves on by one url)
NextBatchStart_byOne(i, n) == i + 1

\* the next value of range(0, len(urls), MAX_CONCURRENT_TABS)
NextBatchStart(i, n) == i + n

\* (variant: the deadline is never found exceeded)
deadline_exceeded_never(t, dl) == FALSE

\* "deadline is not None and time.time() > deadline"
deadline_exceeded(t, dl) == t > dl

\* (variant: only the first remaining url times out)
RemainingTimeouts_first(urls, i) == [u \in {urls[i + 1]} |-> "timeout"]

\* "for url in remaining: all_results[url] = timeout" with remaining = urls[i:]
RemainingTimeouts(urls, i) == [u \in Range(SubSeq(urls, i + 1, Len(urls))) |-> "timeout"]

\* (variant: the except clause fills nothing in)
ExceptFill_none(urls, map) == map

\* "for url in urls: if url not in results: results[url] = browser_error"
ExceptFill(urls, map) ==
    [u \in Range(urls) \cup DOMAIN map |-> IF u \in DOMAIN map THEN map[u] ELSE "browser_error"]

\* "if len(driver.window_handles) > 1: driver.close()": the open tabs and the
\* driver's tab afterwards (the driver closes the tab it is asked to close)
HandlesAfterClose(hs, handle) == IF Cardinality(hs) > 1 THEN hs \ {handle} ELSE hs
CurrentAfterClose(hs, handle) == IF Cardinality(hs) > 1 THEN NoWindow ELSE handle

\* (variant: the handle stays in the set)
PendingAfter_keep(handle_set, handle) == handle_set

\* pending.remove(handle)
PendingAfter(handle_set, handle) == handle_set \ {handle}

\* the state at "total_start = time.time()": the session is started (the check of
\* the two paths passed), no browser yet
InitFetch ==
    /\ IndexerOff
    /\ CoordinatorIdle
    /\ tor = start_tor_globals(NoTor, 0)
    /\ backend = backend_start_tor(NoTor, tor)
    /\ liveTor = 1
    /\ now = 0
    /\ fpc = "start"
    /\ url_list \in UrlLists
    /\ MAX_CONCURRENT_TABS \in TabBounds
    /\ total_start = now
    /\ deadline = 0
    /\ batch_start = 0
    /\ batch = <<>>
    /\ dispatched = 0
    /\ handles = {}
    /\ current = NoWindow
    /\ opened = 0
    /\ tab_url_map = EmptyMap
    /\ pending = {}
    /\ sweep = {}
    /\ collect_start = 0
    /\ batch_results = EmptyMap
    /\ all_results = EmptyMap
    /\ fetch_results = EmptyMap
    /\ navigated = {}
    /\ get_raised = FALSE
    /\ observed = NoObservation
    /\ extracted = EmptyMap
    /\ tab_dispatch_times = EmptyMap
    /\ batches = <<>>
    /\ cut = NoCut
    /\ raised = NotRaised

\* driver.quit() of the finally clause
Quit ==
    /\ handles' = {}
    /\ current' = NoWindow

\* The exception e reaches "except Exception": every url without an entry in
\* results gets browser_error; then the finally clause and the return.
Raise(e) ==
    /\ fetch_results' = ExceptFill(url_list, fetch_results)
    /\ raised' = e
    /\ fpc' = "done"
    /\ Quit

\* The virtual display and the driver are created, the deadline is computed; or one
\* of these raises.
FetchBegin ==
    /\ fpc = "start"
    /\ \/ /\ handles' = {1}
          /\ current' = 1
          /\ opened' = 1
          /\ deadline' = total_start + DEFAULT_OVERALL_TIMEOUT
          /\ all_results' = EmptyMap
          /\ fpc' = "loop"
          /\ UNCHANGED <<fetch_results, raised>>
       \/ /\ Raise("browser_start")
          /\ UNCHANGED <<opened, deadline, all_results>>
    /\ UNCHANGED <<url_list, MAX_CONCURRENT_TABS, total_start, batch_start, batch, dispatched,
                   tab_url_map, pending, sweep, collect_start, batch_results, navigated, batches, cut>>
    /\ UNCHANGED <<coordinator, now, indexer>>
    /\ get_raised' = FALSE
    /\ observed' = NoObservation
    /\ UNCHANGED <<extracted, tab_dispatch_times>>

\* The head of "for i in range(0, len(urls), MAX_CONCURRENT_TABS)": the range is
\* used up; or the deadline has passed and the remaining urls time out; or the
\* next batch is cut and handed to _dispatch_batch.
BatchHead ==
    /\ fpc = "loop"
    /\ IF batch_start >= Len(url_list)
       THEN /\ fpc' = "extract"
            /\ UNCHANGED <<all_results, cut, batch, batches, dispatched, tab_url_map,
                           tab_dispatch_times>>
       ELSE IF deadline_exceeded(now, deadline)
       THEN /\ all_results' = Update(all_results, RemainingTimeouts(url_list, batch_start))
            /\ cut' = batch_start
            /\ fpc' = "extract"
            /\ UNCHANGED <<batch, batches, dispatched, tab_url_map, tab_dispatch_times>>
       ELSE /\ batch' = BatchOf(url_list, batch_start, MAX_CONCURRENT_TABS)
            /\ batches' = Append(batches, batch')
            /\ dispatched' = 0
            /\ tab_url_map' = EmptyMap
            /\ tab_dispatch_times' = EmptyMap
            /\ fpc' = "dispatch"
            /\ UNCHANGED <<all_results, cut>>
    /\ UNCHANGED <<url_list, MAX_CONCURRENT_TABS, total_start, deadline, batch_start, handles,
                   current, opened, pending, sweep, collect_start, batch_results, fetch_results,
                   navigated, raised>>
    /\ UNCHANGED <<coordinator, now, indexer>>
    /\ get_raised' = FALSE
    /\ observed' = NoObservation
    /\ UNCHANGED extracted

\* (variant: every url of a batch gets a tab of its own making)
DispatchHandle_newTab(i, cur, n) == n + 1

\* "if i == 0: handle = driver.current_window_handle; else: window.open,
\* handle = driver.window_handles[-1]": the tab of the i-th url of a batch, with
\* n tabs opened so far
DispatchHandle(i, cur, n) == IF i = 0 THEN cur ELSE n + 1

\* One turn of "for i, url in enumerate(urls)" of _dispatch_batch: the first url
\* takes the driver's current tab, every other one a new tab; then driver.get,
\* whose error is swallowed.  An error of the calls before it is not caught here:
\* the driver has no current tab ("no_window"), or the call fails otherwise.
DispatchUrl ==
    /\ fpc = "dispatch"
    /\ dispatched < Len(batch)
    /\ LET url == batch[dispatched + 1]
           handle == DispatchHandle(dispatched, current, opened)
       IN \/ /\ Raise(IF current \in handles THEN "driver" ELSE "no_window")
             /\ get_raised' = FALSE
             /\ UNCHANGED <<opened, tab_url_map, tab_dispatch_times, navigated, dispatched>>
          \/ /\ current \in handles
             /\ IF dispatched = 0
                THEN UNCHANGED <<handles, current, opened>>
                ELSE /\ handles' = handles \cup {handle}
                     /\ current' = handle
                     /\ opened' = opened + 1
             /\ tab_url_map' = SetOutcome(tab_url_map, handle, url)
             /\ tab_dispatch_times' = SetOutcome(tab_dispatch_times, url, now)
             /\ navigated' = navigated \cup {url}
             /\ get_raised' \in BOOLEAN
             /\ dispatched' = dispatched + 1
             /\ UNCHANGED <<fpc, fetch_results, raised>>
    /\ observed' = NoObservation
    /\ UNCHANGED extracted
    /\ UNCHANGED <<url_list, MAX_CONCURRENT_TABS, total_start, deadline, batch_start, batch,
                   pending, sweep, collect_start, batch_results, all_results, batches, cut>>
    /\ UNCHANGED <<coordinator, now, indexer>>

\* _collect_batch is entered: results, pending and start.
CollectBegin ==
    /\ fpc = "dispatch"
    /\ dispatched = Len(batch)
    /\ batch_results' = EmptyMap
    /\ pending' = DOMAIN tab_url_map
    /\ collect_start' = now
    /\ fpc' = "collect"
    /\ UNCHANGED <<url_list, MAX_CONCURRENT_TABS, total_start, deadline, batch_start, batch,
                   dispatched, handles, current, opened, tab_url_map, sweep, all_results,
                   fetch_results, navigated, batches, cut, raised>>
    /\ UNCHANGED <<coordinator, now, indexer>>
    /\ get_raised' = FALSE
    /\ observed' = NoObservation
    /\ UNCHANGED <<extracted, tab_dispatch_times>>

\* The test of "while pending and (time.time() - start) < timeout and not
\* _deadline_exceeded()": another sweep over list(pending), or on to the
\* remaining tabs.
SweepHead ==
    /\ fpc = "collect"
    /\ sweep' = pending
    /\ IF /\ pending # {}
          /\ now - collect_start < DEFAULT_PAGE_TIMEOUT
          /\ ~deadline_exceeded(now, deadline)
       THEN fpc' = "sweep"
       ELSE fpc' = "late"
    /\ UNCHANGED <<url_list, MAX_CONCURRENT_TABS, total_start, deadline, batch_start, batch,
                   dispatched, handles, current, opened, tab_url_map, pending, collect_start,
                   batch_results, all_results, fetch_results, navigated, batches,
                   cut, raised>>
    /\ UNCHANGED <<coordinator, now, indexer>>
    /\ get_raised' = FALSE
    /\ observed' = NoObservation
    /\ UNCHANGED <<extracted, tab_dispatch_times>>

\* what the driver shows for a tab visited by the sweep; the page source is a
\* page, only white space ("blank_page") or the empty string ("no_page")
SweepObservations ==
    {"switch_fails", "script_fails", "loading", "connection_error_page", "page", "blank_page",
     "no_page", "capture_fails"}

\* (variant: the page source is stored without looking at it)
Captured_unchecked(obs) ==
    CASE obs = "connection_error_page" -> "connection_error"
      [] obs = "page" -> "html"
      [] obs = "blank_page" -> "html"
      [] obs = "no_page" -> "html"
      [] obs = "capture_fails" -> "capture_error"

\* the entry of results for a tab whose document is complete or interactive:
\* "if html" takes every page source but the empty string
Captured(obs) ==
    CASE obs = "connection_error_page" -> "connection_error"
      [] obs = "page" -> "html"
      [] obs = "blank_page" -> "html"
      [] obs = "no_page" -> "empty_response"
      [] obs = "capture_fails" -> "capture_error"

\* One turn of "for handle in list(pending)" in the while loop.
SweepTab ==
    /\ fpc = "sweep"
    /\ \E handle \in sweep, obs \in SweepObservations :
         LET url == tab_url_map[handle] IN
         /\ handle \notin handles => obs = "switch_fails"
         /\ CASE obs = "switch_fails" ->
                   /\ batch_results' = SetOutcome(batch_results, url, "tab_error")
                   /\ pending' = PendingAfter(pending, handle)
                   /\ UNCHANGED <<handles, current>>
              [] obs = "script_fails" ->
                   /\ batch_results' = SetOutcome(batch_results, url, "script_error")
                   /\ pending' = PendingAfter(pending, handle)
                   /\ current' = handle
                   /\ UNCHANGED handles
              [] obs = "loading" ->
                   /\ current' = handle
                   /\ UNCHANGED <<batch_results, pending, handles>>
              [] OTHER ->
                   /\ batch_results' = SetOutcome(batch_results, url, Captured(obs))
                   /\ handles' = HandlesAfterClose(handles, handle)
                   /\ current' = CurrentAfterClose(handles, handle)
                   /\ pending' = PendingAfter(pending, handle)
         /\ sweep' = sweep \ {handle}
         /\ observed' = [handle |-> handle, obs |-> obs]
         /\ UNCHANGED <<extracted, tab_dispatch_times>>
         /\ fpc' = IF sweep' = {} THEN "collect" ELSE "sweep"
    /\ UNCHANGED <<url_list, MAX_CONCURRENT_TABS, total_start, deadline, batch_start, batch,
                   dispatched, opened, tab_url_map, collect_start, all_results, fetch_results,
                   navigated, batches, cut, raised>>
    /\ UNCHANGED <<coordinator, now, indexer>>
    /\ get_raised' = FALSE

\* what the driver shows for a tab still pending after the while loop
LateObservations == {"switch_fails", "page", "blank_page", "no_page", "capture_fails"}

\* (variant: empty content is reported as in the sweep)
LateCaptured_asSweep(obs) ==
    CASE obs = "page" -> "html"
      [] obs = "blank_page" -> "html"
      [] obs = "no_page" -> "empty_response"
      [] obs = "capture_fails" -> "capture_error"

\* the entry of results for a tab switched to after the while loop: the page
\* source "if html and len(html.strip()) > 0", else timeout
LateCaptured(obs) == IF obs = "page" THEN "html" ELSE "timeout"

\* One turn of "for handle in list(pending)" after the while loop ("Handle
\* remaining tabs that timed out").
LateTab ==
    /\ fpc = "late"
    /\ \E handle \in sweep, obs \in LateObservations :
         LET url == tab_url_map[handle] IN
         /\ handle \notin handles => obs = "switch_fails"
         /\ IF obs = "switch_fails"
            THEN /\ batch_results' = SetOutcome(batch_results, url, "timeout")
                 /\ UNCHANGED <<handles, current>>
            ELSE /\ batch_results' = SetOutcome(batch_results, url, LateCaptured(obs))
                 /\ handles' = HandlesAfterClose(handles, handle)
                 /\ current' = CurrentAfterClose(handles, handle)
         /\ sweep' = sweep \ {handle}
         /\ observed' = [handle |-> handle, obs |-> obs]
         /\ UNCHANGED <<extracted, tab_dispatch_times>>
    /\ UNCHANGED <<fpc, url_list, MAX_CONCURRENT_TABS, total_start, deadline, batch_start, batch,
                   dispatched, opened, tab_url_map, pending, collect_start, all_results,
                   fetch_results, navigated, batches, cut, raised>>
    /\ UNCHANGED <<coordinator, now, indexer>>
    /\ get_raised' = FALSE

\* _collect_batch returns, the dispatch times are dropped with it;
\* all_results.update(batch_results); the loop goes on.
CollectEnd ==
    /\ fpc = "late"
    /\ sweep = {}
    /\ all_results' = Update(all_results, batch_results)
    /\ batch_start' = NextBatchStart(batch_start, MAX_CONCURRENT_TABS)
    /\ fpc' = "loop"
    /\ UNCHANGED <<url_list, MAX_CONCURRENT_TABS, total_start, deadline, batch, dispatched,
                   handles, current, opened, tab_url_map, pending, sweep, collect_start,
                   batch_results, fetch_results, navigated, batches, cut, raised>>
    /\ UNCHANGED <<coordinator, now, indexer>>
    /\ get_raised' = FALSE
    /\ observed' = NoObservation
    /\ tab_dispatch_times' = EmptyMap
    /\ UNCHANGED extracted

\* what _extract_with_trafilatura gives back: the JSON string of
\* trafilatura.extract, the empty string, or None (also when extract raised)
ExtractAnswers == {"json", "empty", "none"}

\* (variant: whatever the extractor gives back is stored)
Extracted_unchecked(content, answer) ==
    IF content = "html" THEN "text" ELSE content

\* The entry of results for an entry of all_results: "if isinstance(content,
\* str)" the extracted text "if extracted" and else extraction_error; an error
\* record as it is.
Extracted(content, answer) ==
    IF content = "html"
    THEN IF answer = "json" THEN "text" ELSE "extraction_error"
    ELSE content

\* the urls whose entry of all_results is a str
Captures(map) == {u \in DOMAIN map : map[u] = "html"}

\* "Extract content with Trafilatura": each captured page is handed to the
\* extractor; then the finally clause and the return.
Extract ==
    /\ fpc = "extract"
    /\ \E answer \in [Captures(all_results) -> ExtractAnswers] :
         fetch_results' =
             [u \in DOMAIN all_results |->
                 Extracted(all_results[u], IF u \in DOMAIN answer THEN answer[u] ELSE "none")]
    /\ fpc' = "done"
    /\ Quit
    /\ UNCHANGED <<url_list, MAX_CONCURRENT_TABS, total_start, deadline, batch_start, batch,
                   dispatched, opened, tab_url_map, pending, sweep, collect_start, batch_results,
                   all_results, navigated, batches, cut, raised>>
    /\ UNCHANGED <<coordinator, now, indexer>>
    /\ get_raised' = FALSE
    /\ observed' = NoObservation
    /\ UNCHANGED <<extracted, tab_dispatch_times>>

\* the program points whose next step reads time.time(): the deadline check at
\* the head of the batch loop, "start = time.time()", the test of the while loop
ReadsClock ==
    \/ fpc \in {"loop", "collect"}
    \/ fpc = "dispatch" /\ dispatched = Len(batch)

\* time.time() has moved on when it is read
FetchTickSteps == {DEFAULT_OVERALL_TIMEOUT \div 2 + 1}

FetchTick ==
    /\ ReadsClock
    /\ \E d \in FetchTickSteps :
         /\ now + d <= MaxFetchTime
         /\ now' = now + d
    /\ get_raised' = FALSE
    /\ observed' = NoObservation
    /\ UNCHANGED <<extracted, tab_dispatch_times>>
    /\ UNCHANGED <<coordinator, fpc, url_list, MAX_CONCURRENT_TABS, total_start, deadline,
                   batch_start, batch, dispatched, handles, current, opened, tab_url_map, pending,
                   sweep, collect_start, batch_results, all_results, fetch_results, navigated,
                   batches, cut, raised, indexer>>

NextFetch ==
    \/ FetchBegin
    \/ BatchHead
    \/ DispatchUrl
    \/ CollectBegin
    \/ SweepHead
    \/ SweepTab
    \/ LateTab
    \/ CollectEnd
    \/ Extract
    \/ FetchTick

SpecFetch == InitFetch /\ [][NextFetch]_vars

\* the steps of the thread that runs the call
FetchStep ==
    \/ FetchBegin
    \/ BatchHead
    \/ DispatchUrl
    \/ CollectBegin
    \/ SweepHead
    \/ SweepTab
    \/ LateTab
    \/ CollectEnd
    \/ Extract

\* calls with up to MaxFairUrls urls
InitFetchFair ==
    /\ InitFetch
    /\ Len(url_list) <= MaxFairUrls

\* The thread goes on running (each driver call answers or raises, the sleep
\* between two sweeps ends), and time.time() has moved on, by the sleep if by
\* nothing else, at some of the recurring reads of the clock.
SpecFetchFair ==
    /\ InitFetchFair
    /\ [][NextFetch]_vars
    /\ WF_vars(FetchStep)
    /\ SF_vars(FetchTick)

(***************************************************************************)
(* The loop "for url, content in all_results.items()" of                   *)
(* _fetch_urls_with_browser, turn by turn, on maps of collected outcomes.  *)
(***************************************************************************)
\* what _collect_batch and the deadline check of the batch loop store for a url
CollectedOutcomes ==
    {"html", "tab_error", "script_error", "connection_error", "empty_response", "capture_error",
     "timeout"}

\* the state at "# Extract content with Trafilatura": the browser runs, every
\* url has its entry of all_results, results is empty
InitExtract ==
    /\ IndexerOff
    /\ CoordinatorIdle
    /\ tor = start_tor_globals(NoTor, 0)
    /\ backend = backend_start_tor(NoTor, tor)
    /\ liveTor = 1
    /\ now = 0
    /\ fpc = "extract"
    /\ url_list \in {SubSeq(UrlNames, 1, n) : n \in 1..Min(MaxExtractUrls, MAX_PAGES)}
    /\ MAX_CONCURRENT_TABS = 5
    /\ total_start = now
    /\ deadline = total_start + DEFAULT_OVERALL_TIMEOUT
    /\ batch_start = Len(url_list)
    /\ batch = url_list
    /\ dispatched = Len(url_list)
    /\ handles = {1}
    /\ current = 1
    /\ opened = Len(url_list)
    /\ tab_url_map = EmptyMap
    /\ pending = {}
    /\ sweep = {}
    /\ collect_start = 0
    /\ batch_results = EmptyMap
    /\ all_results \in [Range(url_list) -> CollectedOutcomes]
    /\ fetch_results = EmptyMap
    /\ navigated = Range(url_list)
    /\ get_raised = FALSE
    /\ observed = NoObservation
    /\ extracted = EmptyMap
    /\ tab_dispatch_times = EmptyMap
    /\ batches = <<url_list>>
    /\ cut = NoCut
    /\ raised = NotRaised

\* One turn of the loop: the entry of a url is handed to the extractor if it
\* is a str, and stored in results.
ExtractUrl ==
    /\ fpc = "extract"
    /\ \E url \in DOMAIN all_results \ DOMAIN fetch_results :
         LET content == all_results[url] IN
         IF content = "html"
         THEN \E answer \in ExtractAnswers :
                /\ fetch_results' = SetOutcome(fetch_results, url, Extracted(content, answer))
                /\ extracted' = SetOutcome(extracted, url, answer)
         ELSE /\ fetch_results' = SetOutcome(fetch_results, url, Extracted(content, "none"))
              /\ UNCHANGED extracted
    /\ UNCHANGED <<fpc, url_list, MAX_CONCURRENT_TABS, total_start, deadline, batch_start, batch,
                   dispatched, handles, current, opened, tab_url_map, pending, sweep,
                   collect_start, batch_results, all_results, navigated, get_raised, observed,
                   tab_dispatch_times, batches, cut, raised>>
    /\ UNCHANGED <<coordinator, now, indexer>>

\* The loop is through: the finally clause and the return.
ExtractReturn ==
    /\ fpc = "extract"
    /\ DOMAIN fetch_results = DOMAIN all_results
    /\ fpc' = "done"
    /\ Quit
    /\ UNCHANGED <<url_list, MAX_CONCURRENT_TABS, total_start, deadline, batch_start, batch,
                   dispatched, opened, tab_url_map, pending, sweep, collect_start, batch_results,
                   all_results, fetch_results, navigated, get_raised, observed, extracted,
                   tab_dispatch_times, batches, cut, raised>>
    /\ UNCHANGED <<coordinator, now, indexer>>

NextExtract ==
    \/ ExtractUrl
    \/ ExtractReturn

SpecExtract == InitExtract /\ [][NextExtract]_vars

(***************************************************************************)
(* Properties.                                                             *)
(***************************************************************************)
Running == is_tor_running(tor)

\* the records of a list of distinct urls, numbered from 1
Indexed(urls) == [k \in 1..Len(urls) |-> [index |-> k, url |-> urls[k]]]

Returned(op, result) == ret.op = op /\ ret.result = result

\* the step with which caller t leaves the program point p
Leaves(t, p) == pc[t] = p /\ pc'[t] # p

\* C1: between two successful get_sources calls at most one fetch_pages call
\* passes the checks and runs the fetch; the fetched flag is set before the fetch
\* starts and stays set when the fetch fails, so the generation is consumed.
C1_OneFetchPerGeneration ==
    /\ fetchRuns <= 1
    /\ \A t \in Callers : pc[t] = "fp_fetch" => fetch_pages_called
    /\ fetchRuns = 1 => fetch_pages_called

C1_Witness ==
    /\ Returned("fetch_pages", "fetch_raised")
    /\ fetchRuns = 1
    /\ fetch_pages_called

\* C2: when a call has just returned or raised and no call is inside its locked
\* section, Tor runs only if the stored result set is non-empty, is the one of the
\* most recent successful get_sources and has not been fetched.
C2_RunningOnlyWhileAwaitingFetch ==
    (ret # NoRet /\ ~state_lock /\ Running) =>
        /\ last_search_results # <<>>
        /\ lastSearch.ok
        /\ last_search_results = Indexed(lastSearch.urls)
        /\ ~fetch_pages_called

\* C3: at most one caller is inside a locked section, and the lock is held
\* exactly while one is.
C3_MutualExclusion ==
    /\ Cardinality({t \in Callers : pc[t] \in LockedPcs}) <= 1
    /\ state_lock <=> (\E t \in Callers : pc[t] \in LockedPcs)

C3_Witness ==
    \E t, u \in Callers :
        /\ t # u
        /\ pc[t] = "fp_fetch"
        /\ pc[u] = "gs_wait"

\* the index lists that name stored results only: 1 to MAX_PAGES of them
ValidIndexLists ==
    {ix \in IndexLists : /\ ix # <<>>
                         /\ Len(ix) <= MAX_PAGES
                         /\ Range(ix) \subseteq valid_indexes(last_search_results)}

\* the keepalive window since the session start is still open
WithinKeepalive ==
    /\ tor.tor_start_time # None
    /\ now - tor.tor_start_time[1] <= TOR_KEEPALIVE_SECONDS

\* C4: right after a get_sources call returned successfully, whatever the state
\* before it, the stored result set is exactly the indexed answers of this call,
\* the fetched flag is cleared, no fetch has run in the generation, the session
\* runs, and fetch_pages passes its checks for every list of valid indexes; the
\* one thing that can still reject such a call is the idle timeout, which counts
\* from the session start.
C4_FreshGeneration ==
    Returned("get_sources", "ok") =>
        /\ lastSearch.ok
        /\ last_search_results = Indexed(lastSearch.urls)
        /\ ~fetch_pages_called
        /\ fetchRuns = 0
        /\ Running
        /\ \A ix \in ValidIndexLists :
               FetchPagesCheck(last_search_results, fetch_pages_called, tor, now, ix) =
                   IF WithinKeepalive THEN "fetch" ELSE "tor_timeout"

C4_Witness ==
    /\ Returned("get_sources", "ok")
    /\ Len(last_search_results) = NumUrls
    /\ WithinKeepalive
    /\ now > 0

\* C5 as stated: of two consecutive fetch_pages calls with no get_sources call
\* between them, the second is rejected and fetches nothing.
C5_SecondCallRejected ==
    [][\A t \in Callers :
         (Leaves(t, "fp_check") /\ prevFetch # "none") =>
             /\ pc'[t] = "idle"
             /\ fetchRuns' = fetchRuns]_vars

\* C5, amended: when the first of the two calls passed its checks, the second
\* raises the already-fetched error, fetches nothing and changes nothing.
C5_SecondCallAfterFetchRejected ==
    [][\A t \in Callers :
         (Leaves(t, "fp_check") /\ prevFetch = "passed") =>
             /\ ret'.caller = t /\ Returned("fetch_pages", "already_fetched")'
             /\ pc'[t] = "idle"
             /\ UNCHANGED <<session, generation, fetchRuns>>]_vars

C5_Witness ==
    /\ Returned("fetch_pages", "already_fetched")
    /\ prevFetch = "rejected"
    /\ fetchRuns = 1

\* C6: fetch_pages with no stored results raises the no-search-results error,
\* fetches nothing, and leaves result set, fetched flag and session unchanged.
C6_FetchBeforeSearch ==
    [][\A t \in Callers :
         (Leaves(t, "fp_check") /\ last_search_results = <<>>) =>
             /\ ret'.caller = t /\ Returned("fetch_pages", "no_search_results")'
             /\ pc'[t] = "idle"
             /\ UNCHANGED <<session, generation, fetchRuns>>]_vars

C6_Witness ==
    /\ Returned("fetch_pages", "no_search_results")
    /\ last_search_results = <<>>
    /\ ~lastSearch.ok
    /\ ~Running

\* C7: fetch_pages on a not yet fetched generation whose session started more
\* than the keepalive ago raises the timeout error, fetches no page, and the
\* session is not running when it returns.
C7_IdleTimeout ==
    [][\A t \in Callers :
         (/\ Leaves(t, "fp_check")
          /\ last_search_results # <<>>
          /\ ~fetch_pages_called
          /\ tor.tor_process # None
          /\ tor.tor_start_time # None
          /\ now - tor.tor_start_time[1] > TOR_KEEPALIVE_SECONDS) =>
             /\ ret'.caller = t /\ Returned("fetch_pages", "tor_timeout")'
             /\ pc'[t] = "idle"
             /\ tor'.tor_process = None
             /\ UNCHANGED <<generation, fetchRuns>>]_vars

C7_Witness ==
    /\ Returned("fetch_pages", "tor_timeout")
    /\ backend.tor_start_time # None
    /\ now - backend.tor_start_time[1] > TOR_KEEPALIVE_SECONDS
    /\ ~Running
    /\ lastSearch.ok

\* C8: right after a fetch_pages call that passed its checks has returned or
\* raised, the session is not running.
C8_FetchTearsDown ==
    (ret.op = "fetch_pages" /\ ret.result \in {"ok", "fetch_raised"}) =>
        /\ ~Running
        /\ backend.tor_process = None

C8_Witness ==
    /\ Returned("fetch_pages", "ok")
    /\ ~Running
    /\ fetch_pages_called

\* C9: fetch_specific_page starts a session of its own (started at the time of
\* the call, whatever ran before) for its one fetch, and on every way out of the
\* call the session is not running.
C9_Ephemeral ==
    [][\A t \in Callers :
         /\ (pc[t] = "fsp_start" /\ pc'[t] = "fsp_fetch") =>
                /\ tor'.tor_process # None
                /\ tor'.tor_start_time = Some(now)
         /\ (pc[t] \in {"fsp_start", "fsp_fetch"} /\ pc'[t] = "idle") =>
                /\ ret'.op = "fetch_specific_page"
                /\ tor'.tor_process = None]_vars

C9_Witness ==
    /\ Returned("fetch_specific_page", "launch_failed")
    /\ ~Running
    /\ lastSearch.ok
    /\ last_search_results # <<>>
    /\ ~fetch_pages_called

\* C10 as stated: right after a get_sources call that passed the argument checks
\* has returned or raised, the stored result set holds the results of this call
\* only and the fetched flag is cleared.
C10_AlwaysReplaces ==
    (ret.op = "get_sources" /\ ret.result \notin {"no_queries", "too_many_queries"}) =>
        /\ last_search_results = Indexed(lastSearch.urls)
        /\ ~fetch_pages_called

\* C10, amended: a call that returns stores the results of this call only and
\* clears the flag; a call that raises while searching leaves the results of
\* this call indexed so far and the flag as it was; a call that raises while
\* starting the session leaves result set and flag as they were.
C10_ReplacesOnceStarted ==
    [][\A t \in Callers :
         (pc[t] \in {"gs_start", "gs_search"} /\ pc'[t] = "idle") =>
             /\ ret'.op = "get_sources"
             /\ CASE ret'.result = "ok" ->
                       /\ last_search_results' = Indexed(lastSearch'.urls)
                       /\ ~fetch_pages_called'
                  [] ret'.result = "search_error" ->
                       /\ last_search_results' = Indexed(lastSearch'.urls)
                       /\ fetch_pages_called' = fetch_pages_called
                  [] OTHER ->
                       /\ ret'.result \in StartOutcomes \ {"ok"}
                       /\ UNCHANGED generation]_vars

C10_Witness ==
    /\ Returned("get_sources", "search_error")
    /\ last_search_results # <<>>
    /\ fetch_pages_called


(***************************************************************************)
(* The indexing loop of get_sources on provider answers of up to           *)
(* MAX_RESULTS hits: "for query in queries:" between the start of Tor and  *)
(* the reset of the fetch flag, every provider call answering.            *)
(***************************************************************************)
\* list(ddgs.text(...)) as hrefs: n hits naming one url n times (step 0) or n
\* urls in a row (step 1), from url first + 1 on
Answer(first, n, step) == [k \in 1..n |-> first + 1 + (k - 1) * step]

Answers == {Answer(first, n, step) : first \in 0..MaxStart, n \in 0..MAX_RESULTS, step \in {0, 1}}

\* the answers to the 1 to MAX_QUERIES queries of a call
AnswerLists == UNION {[1..n -> Answers] : n \in 1..MAX_QUERIES}

\* the state at "for query in queries:": seen_urls = set(), _last_search_results = [],
\* current_index = 1
InitIndex ==
    /\ OrchestratorOff
    /\ CoordinatorIdle
    /\ liveTor = 0
    /\ tor = NoTor
    /\ backend = NoTor
    /\ now = 0
    /\ answers \in AnswerLists
    /\ answered = 0
    /\ indexing = [seen_urls |-> {}, results |-> <<>>, current_index |-> 1]

\* One turn of "for query in queries:": the hits of the next query are indexed.
IndexQuery ==
    /\ answered < Len(answers)
    /\ indexing' = IndexHits(answers[answered + 1], indexing)
    /\ answered' = answered + 1
    /\ UNCHANGED <<coordinator, now, orchestrator, answers>>

NextIndex == IndexQuery

SpecIndex == InitIndex /\ [][NextIndex]_vars

\* the caller holding _state_lock, if any
InLocked == {t \in Callers : pc[t] \in LockedPcs}

\* C18: there is never more than one live Tor session: a process is launched
\* only when no handle is held, so that no handle is overwritten; the processes
\* launched and not killed are the one whose handle is held, if any.
C18_OneLiveSession == liveTor = IF tor.tor_process # None THEN 1 ELSE 0

\* get_sources found Tor running, stopped it and started it
C18_Witness ==
    /\ \E t \in Callers : pc[t] = "gs_search" /\ frame[t].restarted
    /\ tor.tor_process # None
    /\ liveTor = 1

\* C19: every start, stop and idle-timeout check of the Tor session is a step
\* of the one caller that holds _state_lock: the session changes, and the
\* checks of fetch_pages are made, only by a step of a caller inside its locked
\* section, with the lock held and no other caller inside one.
C19_LifecycleUnderLock ==
    [][(session' # session \/ \E t \in Callers : Leaves(t, "fp_check")) =>
          /\ state_lock
          /\ \E t \in Callers :
                /\ InLocked = {t}
                /\ pc'[t] # pc[t]
                /\ \A other \in Callers \ {t} : pc'[other] = pc[other]]_vars

\* one caller is inside get_sources with the session it started while the other
\* waits for the lock
C19_Witness ==
    /\ state_lock
    /\ pc["c1"] = "gs_search"
    /\ pc["c2"] \in {"gs_wait", "fp_wait", "fsp_wait"}
    /\ tor.tor_process # None

\* C20: the idle-timeout check returns false when no session is active, returns
\* false and tears the session down when now - start is greater than the
\* keepalive, and returns true and leaves the session as it is when the elapsed
\* time is at most the keepalive.
C20_CheckTimeout ==
    [][\A t \in Callers :
          (Leaves(t, "fp_check") /\ last_search_results # <<>> /\ ~fetch_pages_called) =>
             IF tor.tor_process = None
             THEN Returned("fetch_pages", "tor_timeout")' /\ tor' = tor
             ELSE IF now - tor.tor_start_time[1] > TOR_KEEPALIVE_SECONDS
             THEN /\ Returned("fetch_pages", "tor_timeout")'
                  /\ tor'.tor_process = None
                  /\ tor'.tor_start_time = None
             ELSE ~Returned("fetch_pages", "tor_timeout")' /\ tor' = tor]_vars

\* fetch_pages went past the idle-timeout check with the session exactly
\* TOR_KEEPALIVE_SECONDS old, and rejected the indexes
C20_Witness ==
    /\ Returned("fetch_pages", "invalid_index")
    /\ tor.tor_process # None
    /\ now - tor.tor_start_time[1] = TOR_KEEPALIVE_SECONDS

(***************************************************************************)
(* Properties of the fetch orchestrator (SpecFetch).                       *)
(***************************************************************************)
\* C11: at every point of a fetch call the number of open browser tabs is at
\* most MAX_CONCURRENT_TABS, also after tabs of an earlier batch ended with a
\* tab or script error.
C11_TabBound == Cardinality(handles) <= MAX_CONCURRENT_TABS

\* the call returned its map
FetchDone == fpc = "done"

\* the urls from position first on
UrlsFrom(first) == {url_list[k] : k \in first..Len(url_list)}

\* C12: the returned map has exactly the requested urls as keys, each with a
\* text or a typed error, whether the call completed, was cut by the deadline
\* or had an exception in the orchestration.
C12_OneOutcomePerUrl ==
    FetchDone =>
        /\ DOMAIN fetch_results = Range(url_list)
        /\ \A u \in DOMAIN fetch_results : fetch_results[u] \in FinalOutcomes

\* a call of several urls returned after the deadline cut it behind a collected
\* batch that brought a text
C12_Witness ==
    /\ FetchDone
    /\ cut > 0
    /\ \E u \in DOMAIN fetch_results : fetch_results[u] = "text"
    /\ DOMAIN fetch_results = Range(url_list)

\* C13: when an exception leaves the batch loop after a batch was collected, the
\* urls with an outcome keep it in the returned map and only the others get
\* browser_error.
C13_PartialResultsKept ==
    (FetchDone /\ raised # NotRaised /\ DOMAIN all_results # {}) =>
        \A u \in Range(url_list) :
            /\ u \in DOMAIN fetch_results
            /\ (fetch_results[u] = "browser_error") <=> (u \notin DOMAIN all_results)

\* what the returned map holds for a url with the collected outcome o
Returnable(o) == IF o = "html" THEN {"text", "extraction_error"} ELSE {o}

\* C14: a failure of one url of a batch (failed driver.get, tab-switch or script
\* failure, connection error, empty response, capture failure, timeout) changes
\* that url's outcome only: unless the driver fails outside the tabs of the
\* urls, every collected url is returned with its own outcome.
C14_FailureConfined ==
    (FetchDone /\ raised \notin {"browser_start", "driver"}) =>
        \A u \in DOMAIN all_results :
            u \in DOMAIN fetch_results /\ fetch_results[u] \in Returnable(all_results[u])

\* the tabs opened for the batches handed to _dispatch_batch: the initial one and
\* one for every url of a batch but its first
TabsOfBatches(bs) ==
    LET RECURSIVE Sum(_)
        Sum(k) == IF k = 0 THEN 0 ELSE Sum(k - 1) + Len(bs[k]) - 1
    IN 1 + Sum(Len(bs))

\* C15: when the deadline has passed at the start of a batch, every url of that
\* batch and of the later ones gets the timeout outcome, no tab is opened and no
\* navigation started for them, and no further batch is processed.
C15_DeadlineCut ==
    cut # NoCut =>
        /\ fpc \in {"extract", "done"}
        /\ Len(batches) * MAX_CONCURRENT_TABS = cut
        /\ opened = TabsOfBatches(batches)
        /\ \A u \in UrlsFrom(cut + 1) :
              /\ u \notin navigated
              /\ u \in DOMAIN all_results /\ all_results[u] = "timeout"
              /\ FetchDone => (u \in DOMAIN fetch_results /\ fetch_results[u] = "timeout")

\* the call returned after the deadline cut it with two batches still to go
C15_Witness ==
    /\ FetchDone
    /\ cut > 0
    /\ Len(url_list) - cut > MAX_CONCURRENT_TABS
    /\ \A u \in UrlsFrom(cut + 1) : fetch_results[u] = "timeout"

\* ceil(a / b)
CeilDiv(a, b) == (a + b - 1) \div b

\* the urls of the batches before the one being processed
EarlierUrls == UNION {Range(batches[k]) : k \in 1..(Len(batches) - 1)}

\* C16: the batches are the consecutive slices of the url list of
\* MAX_CONCURRENT_TABS urls each (the last one of what is left), ceil(L/N) of
\* them when the loop runs to its end, and the urls of a batch are navigated
\* only when every url of the batches before it has its collected outcome.
C16_Batches ==
    /\ \A k \in DOMAIN batches :
          batches[k] = SubSeq(url_list, (k - 1) * MAX_CONCURRENT_TABS + 1,
                              Min(k * MAX_CONCURRENT_TABS, Len(url_list)))
    /\ (fpc \in {"extract", "done"} /\ cut = NoCut /\ raised = NotRaised) =>
          Len(batches) = CeilDiv(Len(url_list), MAX_CONCURRENT_TABS)
    /\ navigated \subseteq UNION {Range(batches[k]) : k \in DOMAIN batches}
    /\ (fpc \in {"dispatch", "collect", "sweep", "late"}) => EarlierUrls \subseteq DOMAIN all_results

\* the loop ran to its end over three urls in batches of two and one
C16_Witness ==
    /\ FetchDone
    /\ cut = NoCut
    /\ raised = NotRaised
    /\ Len(batches) = 2
    /\ Len(batches[1]) = 2
    /\ Len(batches[2]) = 1

(***************************************************************************)
(* Properties of the indexing loop (SpecIndex).                            *)
(***************************************************************************)
\* the hits of the first n answers, in the order the provider gave them
RECURSIVE HitsOf(_)
HitsOf(n) == IF n = 0 THEN <<>> ELSE HitsOf(n - 1) \o answers[n]

\* the last query of the call was indexed
IndexingDone == answers # <<>> /\ answered = Len(answers)

\* C17: for 1 to 3 queries of at most 5 hits each, the stored result set is the
\* distinct urls in the order of their first appearance across all queries,
\* numbered 1..k without gap or repeat, k the number of distinct urls; no two
\* records share a url.
C17_IndexedInOrder ==
    IndexingDone =>
        LET stored == indexing.results
            hits == HitsOf(Len(answers))
        IN /\ Len(stored) = Cardinality(Range(hits))
           /\ \A k \in DOMAIN stored : stored[k].index = k
           /\ \A k, m \in DOMAIN stored : stored[k].url = stored[m].url => k = m
           /\ [k \in DOMAIN stored |-> stored[k].url] = FirstOccurrences(hits)

\* two queries of 5 hits that share 2 urls were indexed 1..8
C17_Witness ==
    /\ IndexingDone
    /\ Len(answers) = 2
    /\ Len(answers[1]) = 5
    /\ Len(answers[2]) = 5
    /\ Cardinality(Range(answers[1])) = 5
    /\ Cardinality(Range(answers[2])) = 5
    /\ Cardinality(Range(answers[1]) \cap Range(answers[2])) = 2
    /\ Len(indexing.results) = 8
    /\ indexing.results[8].index = 8

(***************************************************************************)
(* Properties of the tools: frame effects and errors (Spec).               *)
(***************************************************************************)
\* C21: fetch_specific_page leaves the generation state alone: no step of the
\* call changes the stored result set or the fetched flag, and none is changed
\* while the call is inside its locked section, so that both are after the
\* call what they were before it, however the call ends.
C21_GenerationUntouched ==
    [][(\E t \in Callers :
          \/ pc[t] \in {"fsp_start", "fsp_fetch"}
          \/ pc[t] = "fsp_wait" /\ pc'[t] # "fsp_wait"
          \/ pc[t] = "idle" /\ pc'[t] = "fsp_wait") => UNCHANGED generation]_vars

\* fetch_specific_page returned its page while a generation was awaiting its fetch
C21_Witness ==
    /\ Returned("fetch_specific_page", "ok")
    /\ lastSearch.ok
    /\ last_search_results # <<>>
    /\ ~fetch_pages_called

\* a generation is stored, not fetched yet, and its session is inside the keepalive
LiveUnfetched ==
    /\ last_search_results # <<>>
    /\ ~fetch_pages_called
    /\ tor.tor_process # None
    /\ WithinKeepalive

\* the index list of the fetch_pages call of t, where the checks of the call got to it
SeenIndexes(t) ==
    IF pc[t] = "fp_fetch" THEN Some(frame[t].indexes)
    ELSE IF ret.caller = t /\ ret.op = "fetch_pages" THEN ret.arg
    ELSE None

\* the indexes of the stored results
StoredIndexes == {last_search_results[i].index : i \in DOMAIN last_search_results}

\* C22: fetch_pages on a stored, not yet fetched generation with a running
\* session gets to its argument, and with more than MAX_PAGES indexes it raises
\* the error whose message states the number of indexes requested; no fetch runs.
C22_TooManyIndexes ==
    [][\A t \in Callers :
         (Leaves(t, "fp_check") /\ LiveUnfetched) =>
             LET seen == SeenIndexes(t)' IN
             /\ seen # None
             /\ Len(seen[1]) > MAX_PAGES =>
                   /\ ret'.caller = t /\ Returned("fetch_pages", "too_many_indexes")'
                   /\ ret'.message.requested = Some(Len(seen[1]))
                   /\ pc'[t] = "idle"
                   /\ fetchRuns' = fetchRuns]_vars

\* six indexes, all of them stored, were rejected on a live generation
C22_Witness ==
    /\ Returned("fetch_pages", "too_many_indexes")
    /\ ret.message.requested = Some(MAX_PAGES + 1)
    /\ Range(ret.arg[1]) \subseteq StoredIndexes
    /\ LiveUnfetched

\* the invalid-index error, listing the stored indexes in ascending order, ended
\* the fetch_pages call of t without a fetch
InvalidIndexRaised(t) ==
    /\ ret'.caller = t /\ Returned("fetch_pages", "invalid_index")'
    /\ ret'.message.invalid # None /\ ret'.message.valid # None
    /\ ret'.message.invalid[1] \in Range(ret'.arg[1]) \ StoredIndexes
    /\ LET listed == ret'.message.valid[1] IN
          /\ Range(listed) = StoredIndexes
          /\ \A i, j \in DOMAIN listed : i < j => listed[i] < listed[j]
    /\ pc'[t] = "idle"
    /\ fetchRuns' = fetchRuns

\* C23 as stated: fetch_pages on a live generation with any index that is not
\* stored raises the error that lists the valid indexes, and fetches nothing.
C23_InvalidIndex ==
    [][\A t \in Callers :
         (Leaves(t, "fp_check") /\ LiveUnfetched) =>
             LET seen == SeenIndexes(t)' IN
             /\ seen # None
             /\ ~(Range(seen[1]) \subseteq StoredIndexes) => InvalidIndexRaised(t)]_vars

\* C23, amended: so it is when at most MAX_PAGES indexes are requested, also
\* when the other indexes are stored ones; with more than MAX_PAGES indexes the
\* error is the one that states the count, whatever the indexes.
C23_InvalidIndexWithinLimit ==
    [][\A t \in Callers :
         (Leaves(t, "fp_check") /\ LiveUnfetched) =>
             LET seen == SeenIndexes(t)' IN
             /\ seen # None
             /\ (Len(seen[1]) <= MAX_PAGES /\ ~(Range(seen[1]) \subseteq StoredIndexes)) =>
                   InvalidIndexRaised(t)
             /\ (Len(seen[1]) > MAX_PAGES /\ ~(Range(seen[1]) \subseteq StoredIndexes)) =>
                   Returned("fetch_pages", "too_many_indexes")']_vars

\* a stored index followed by one that is not stored was rejected
C23_Witness ==
    /\ Returned("fetch_pages", "invalid_index")
    /\ Len(ret.arg[1]) = 2
    /\ ret.arg[1][1] \in StoredIndexes
    /\ ret.arg[1][2] \notin StoredIndexes
    /\ ret.message.invalid = Some(ret.arg[1][2])
    /\ ret.message.valid = Some(Sorted(StoredIndexes))
    /\ LiveUnfetched

\* the errors raised by the checks of the arguments of get_sources and fetch_pages
ArgumentErrors == {"no_queries", "too_many_queries"} \cup IndexErrors

\* the selections of at most MAX_PAGES of the stored indexes, in ascending order
ValidSelections(results) ==
    {Sorted(S) : S \in {T \in SUBSET valid_indexes(results) :
                            T # {} /\ Cardinality(T) <= MAX_PAGES}}

\* C24: a step that ends a call with an error of argument validation changes
\* neither the stored result set nor the fetched flag nor the session, and runs
\* no fetch; when the generation was live before the call it is live after it,
\* and fetch_pages then passes its checks for every selection of stored indexes.
C24_RejectionHasNoEffect ==
    [][ret'.result \in ArgumentErrors =>
          /\ UNCHANGED <<session, generation, fetchRuns>>
          /\ pc'[ret'.caller] = "idle"
          /\ ret'.op = "fetch_pages" => LiveUnfetched
          /\ LiveUnfetched =>
                /\ LiveUnfetched'
                /\ \A ix \in ValidSelections(last_search_results') :
                      FetchPagesCheck(last_search_results', fetch_pages_called', tor', now', ix)
                          = "fetch"]_vars

\* get_sources was rejected for its queries while a generation awaited its
\* fetch, and a list of valid indexes exists
C24_Witness ==
    /\ Returned("get_sources", "too_many_queries")
    /\ ret.arg = Some(Queries(MAX_QUERIES + 1))
    /\ LiveUnfetched
    /\ ValidIndexLists # {}

\* C25: a get_sources call with no query ends with the no-queries error, one
\* with more than 3 queries with the too-many error, both before the lock is
\* asked for; a call goes on to the lock exactly with 1 to 3 queries.
C25_QueryCount ==
    /\ \A t \in Callers : pc[t] = "gs_wait" => Len(frame[t].queries) \in 1..3
    /\ ret.op = "get_sources" /\ ret.result \in {"no_queries", "too_many_queries"} =>
          /\ ret.arg # None
          /\ ret.result = "no_queries" <=> Len(ret.arg[1]) = 0
          /\ ret.result = "too_many_queries" <=> Len(ret.arg[1]) > 3
    /\ ret.op = "get_sources" /\ ret.arg # None =>
          /\ Len(ret.arg[1]) \notin 1..3
          /\ ret.result \in {"no_queries", "too_many_queries"}

\* one caller passed the checks with 3 queries, the other was rejected with 4
C25_Witness ==
    \E t \in Callers :
        /\ pc[t] = "gs_wait"
        /\ Len(frame[t].queries) = 3
        /\ ret.caller # t
        /\ Returned("get_sources", "too_many_queries")
        /\ Len(ret.arg[1]) = 4

\* C26: fetch_specific_page returns content only when the outcome stored for
\* its url is extracted text; an error record of any type raises the error
\* that names the type, no entry raises the no-content error, and an exception
\* of the fetch goes on to the caller.
C26_FailureRaised ==
    ret.op = "fetch_specific_page" /\ ret.result \notin StartOutcomes \ {"ok"} =>
        /\ ret.fetched # None
        /\ ret.result = "ok" <=> ret.fetched = Some("text")
        /\ ret.fetched[1] \in FinalOutcomes \ {"text"} =>
              /\ ret.result = "fetch_failed"
              /\ ret.message.error_type = ret.fetched
        /\ ret.fetched = Some("missing") => ret.result = "no_content"
        /\ ret.fetched = Some("raised") => ret.result = "fetch_raised"
        /\ ret.result \in {"ok", "fetch_failed", "no_content", "fetch_raised"}

\* the page timed out, and the call raised the error naming the timeout
C26_Witness ==
    /\ Returned("fetch_specific_page", "fetch_failed")
    /\ ret.fetched = Some("timeout")
    /\ ret.message.error_type = Some("timeout")
    /\ ~Running

\* BACKEND.stop_tor() on the session <<g, b>>: the globals and the backend's
\* fields it leaves
StopTor(g, b) == <<kill_tor(g), backend_stop_tor(b)>>

\* stop never raises, leaves no session running, and a second stop changes nothing
StopIsSafe ==
    /\ \A k \in KillOutcomes : ~kill_tor_raises(tor, k)
    /\ ret.result # "stop_raised"
    /\ LET once == StopTor(tor, backend)
           twice == StopTor(once[1], once[2])
       IN /\ ~is_tor_running(once[1])
          /\ once[2].tor_process = None
          /\ twice = once

StartErrors == StartOutcomes \ {"ok"}

\* C28: a get_sources or fetch_specific_page call whose session start failed
\* has ended with that error, straight from its start step: no process it
\* launched is alive, no answer of the provider and no fetch outcome belongs to
\* it, and no session is running.
C28_StartFailure ==
    ret.result \in StartErrors =>
        /\ ret.op \in {"get_sources", "fetch_specific_page"}
        /\ pc[ret.caller] = "idle"
        /\ ~state_lock
        /\ ~Running
        /\ backend.tor_process = None
        /\ liveTor = 0
        /\ ret.fetched = None
        /\ ret.op = "get_sources" => lastSearch = [urls |-> <<>>, ok |-> FALSE]

\* get_sources found no browser bundle while a generation was stored
C28_Witness ==
    /\ Returned("get_sources", "tbb_not_found")
    /\ last_search_results # <<>>
    /\ ~Running

(***************************************************************************)
(* Properties of the collection of a batch (SpecFetch).                    *)
(***************************************************************************)
\* the url of the tab the last step visited, and whether it has an outcome
ObservedUrl == tab_url_map[observed.handle]

\* the tab the last step visited left the pending set with the outcome o
ResolvedAs(o) ==
    /\ observed.handle \notin pending
    /\ ObservedUrl \in DOMAIN batch_results
    /\ batch_results[ObservedUrl] = o

\* C29: a tab visited by a sweep gets its outcome from what the driver shows:
\* tab_error when the switch fails, script_error when the readiness query
\* fails; none while the document is loading, and the tab stays pending; for a
\* loaded document connection_error when the driver reports a connection
\* failure, else empty_response for empty content, capture_error when the
\* capture fails, and the raw content otherwise.  With an outcome the tab has
\* left the pending set.
C29_SweepOutcome ==
    (observed # NoObservation /\ fpc \in {"sweep", "collect"}) =>
        CASE observed.obs = "switch_fails" -> ResolvedAs("tab_error")
          [] observed.obs = "script_fails" -> ResolvedAs("script_error")
          [] observed.obs = "loading" ->
                /\ observed.handle \in pending
                /\ ObservedUrl \notin DOMAIN batch_results
          [] observed.obs = "connection_error_page" -> ResolvedAs("connection_error")
          [] observed.obs = "no_page" -> ResolvedAs("empty_response")
          [] observed.obs = "capture_fails" -> ResolvedAs("capture_error")
          [] observed.obs \in {"page", "blank_page"} -> ResolvedAs("html")

\* of two pending tabs the sweep left one loading and found the other one's
\* document complete and empty
C29_Witness ==
    /\ fpc = "collect"
    /\ observed.obs = "no_page"
    /\ batch_results[ObservedUrl] = "empty_response"
    /\ Cardinality(pending) = 1
    /\ pending \cap DOMAIN tab_url_map # {}
    /\ \A h \in pending : tab_url_map[h] \notin DOMAIN batch_results

\* every tab still pending after the while loop is visited once, while it has
\* no outcome, and when the loop over them ends every url of the batch has one
OneLateCapture ==
    /\ sweep \subseteq pending
    /\ \A h \in pending : h \in sweep <=> tab_url_map[h] \notin DOMAIN batch_results
    /\ \A h \in DOMAIN tab_url_map \ pending : tab_url_map[h] \in DOMAIN batch_results
    /\ sweep = {} => DOMAIN batch_results = Range(batch)

\* C30: after the while loop each tab still pending gets one capture: content
\* that is not empty becomes the outcome, anything else (empty content, a
\* capture failure, a failure of the switch to the tab) becomes timeout, and no
\* tab is left without an outcome.
C30_LateCapture ==
    fpc = "late" =>
        /\ OneLateCapture
        /\ observed # NoObservation =>
              /\ observed.handle \in pending \ sweep
              /\ batch_results[ObservedUrl] =
                     IF observed.obs \in {"page", "blank_page"} THEN "html" ELSE "timeout"

\* C30, amended: after the while loop each tab still pending gets one capture:
\* content that is not blank becomes the outcome, anything else (empty
\* content, content of white space only, a capture failure, a failure of the
\* switch to the tab) becomes timeout, and no tab is left without an outcome.
C30_LateCaptureNotBlank ==
    fpc = "late" =>
        /\ OneLateCapture
        /\ observed # NoObservation =>
              /\ observed.handle \in pending \ sweep
              /\ batch_results[ObservedUrl] =
                     IF observed.obs = "page" THEN "html" ELSE "timeout"

\* the loop over the remaining tabs ended: the last of two tabs showed white
\* space only, the other one brought its page
C30_Witness ==
    /\ fpc = "late"
    /\ sweep = {}
    /\ Cardinality(pending) = 2
    /\ observed.obs = "blank_page"
    /\ batch_results[ObservedUrl] = "timeout"
    /\ \E u \in DOMAIN batch_results : batch_results[u] = "html"

(***************************************************************************)
(* Properties of the extraction loop (SpecExtract).                        *)
(***************************************************************************)
\* C31: in the loop after the batches every entry of all_results that is raw
\* content is handed to the extractor: an extraction that gives a text replaces
\* the content, one that gives nothing or the empty string becomes
\* extraction_error; an entry that is an error record is stored as it is and
\* the extractor is not asked; when the loop is through every url has its entry.
C31_PostProcessing ==
    /\ \A u \in DOMAIN fetch_results :
          IF all_results[u] = "html"
          THEN /\ u \in DOMAIN extracted
               /\ fetch_results[u] = IF extracted[u] = "json" THEN "text" ELSE "extraction_error"
          ELSE /\ u \notin DOMAIN extracted
               /\ fetch_results[u] = all_results[u]
    /\ DOMAIN extracted \subseteq DOMAIN fetch_results
    /\ fpc = "done" => DOMAIN fetch_results = DOMAIN all_results

\* the call returned: the extraction of one page gave the empty string, the
\* other url had timed out
C31_Witness ==
    /\ fpc = "done"
    /\ \E u, v \in DOMAIN fetch_results :
          /\ u \in DOMAIN extracted
          /\ extracted[u] = "empty"
          /\ fetch_results[u] = "extraction_error"
          /\ all_results[v] = "timeout"
          /\ fetch_results[v] = "timeout"

(***************************************************************************)
(* Further properties of one fetch call (SpecFetch).                       *)
(***************************************************************************)
\* the entries of map are entries of map' too
Kept(map) == \A u \in DOMAIN map : u \in DOMAIN map' /\ map'[u] = map[u]

\* C32: while a batch is collected an entry of results, once written, is never
\* written again: a step of the sweep or of the late capture adds at most the
\* entry of the tab it visits, that tab is pending and its url has no entry
\* yet, and a tab that has left the pending set is not visited again; when the
\* collection ends every url of the batch has its entry.
C32_WrittenOnce ==
    [][(fpc \in {"collect", "sweep", "late"}) =>
          /\ Kept(batch_results)
          /\ batch_results' # batch_results =>
                /\ observed' # NoObservation
                /\ observed'.handle \in pending
                /\ tab_url_map[observed'.handle] \notin DOMAIN batch_results
                /\ DOMAIN batch_results' =
                      DOMAIN batch_results \cup {tab_url_map[observed'.handle]}
          /\ observed' # NoObservation => observed'.handle \in pending
          /\ pending' \subseteq pending
          /\ (fpc' = "loop" => DOMAIN batch_results = Range(batch))]_vars

\* the late capture wrote the entry of a tab that was still pending, after a
\* sweep had written the entry of another tab of the batch
C32_Witness ==
    /\ fpc = "late"
    /\ observed # NoObservation
    /\ ObservedUrl \in DOMAIN batch_results
    /\ \E h \in DOMAIN tab_url_map \ pending :
          /\ tab_url_map[h] \in DOMAIN batch_results
          /\ batch_results[tab_url_map[h]] = "script_error"

\* the test of the while loop of _collect_batch sends the call on to the tabs
\* that remain exactly when no tab is pending, the time since the collection
\* started has reached the page timeout, or the clock is past the deadline
SweepLoopExit ==
    (fpc = "collect" /\ fpc' # "collect") =>
        /\ fpc' \in {"sweep", "late"}
        /\ fpc' = "late" <=>
              \/ pending = {}
              \/ now - collect_start >= DEFAULT_PAGE_TIMEOUT
              \/ now > deadline

\* C33: with time moving on at the reads of the clock, the while loop of a
\* collection is left at its first test that finds no tab pending, the page
\* timeout used up or the deadline passed; every collection that began comes
\* back to the batch loop, and every call returns, driver.quit() called and no
\* tab left.
C33_Terminates ==
    /\ [][SweepLoopExit]_vars
    /\ (fpc = "collect") ~> (fpc = "loop")
    /\ <>(fpc = "done" /\ handles = {})

\* a sweep left a tab loading, the clock moved past the page timeout and the
\* test of the loop sent the call on to the remaining tabs
C33_Witness ==
    /\ fpc = "late"
    /\ sweep = pending
    /\ pending # {}
    /\ now - collect_start >= DEFAULT_PAGE_TIMEOUT
    /\ ~(now > deadline)

\* a turn of the loop of _dispatch_batch that got to driver.get
Dispatches == fpc = "dispatch" /\ dispatched' = dispatched + 1

\* the url of that turn, and the tab it was mapped to
DispatchedUrl == batch[dispatched + 1]
DispatchedTab == CHOOSE h \in DOMAIN tab_url_map' : tab_url_map'[h] = DispatchedUrl

\* that turn maps the url to a tab no url of the batch was mapped to, stamps it
\* with the time of the clock and calls driver.get for it
MappedAndStamped ==
    /\ DispatchedUrl \in Range(tab_url_map')
    /\ DispatchedTab \notin DOMAIN tab_url_map
    /\ DOMAIN tab_url_map' = DOMAIN tab_url_map \cup {DispatchedTab}
    /\ Kept(tab_url_map)
    /\ DOMAIN tab_dispatch_times' = DOMAIN tab_dispatch_times \cup {DispatchedUrl}
    /\ tab_dispatch_times'[DispatchedUrl] = now
    /\ DispatchedUrl \in navigated'

\* the tab is one the turn opened, and the driver is switched to it
InNewTab ==
    /\ DispatchedTab \notin handles
    /\ handles' = handles \cup {DispatchedTab}
    /\ current' = DispatchedTab

\* the tab is the one the driver is at, and no tab is opened
InCurrentTab ==
    /\ DispatchedTab = current
    /\ DispatchedTab \in handles
    /\ UNCHANGED <<handles, current>>

\* the tab the browser starts with
InitialTab == 1

\* C34: in the dispatch of a batch each url is navigated in a tab opened for it,
\* except the first url of the first batch, which takes the tab the browser
\* started with; each url is mapped to a tab handle of its own and gets a
\* dispatch timestamp.
C34_NewTabPerUrl ==
    [][Dispatches =>
          /\ MappedAndStamped
          /\ IF batch_start = 0 /\ dispatched = 0
             THEN InCurrentTab /\ DispatchedTab = InitialTab
             ELSE InNewTab]_vars

\* C34, amended: in the dispatch of a batch the first url of every batch takes
\* the tab the driver is at, which in the first batch is the tab the browser
\* started with, and each other url is navigated in a tab opened for it; each
\* url is mapped to a tab handle of its own and gets a dispatch timestamp.
C34_CurrentTabPerBatch ==
    [][Dispatches =>
          /\ MappedAndStamped
          /\ IF dispatched = 0
             THEN InCurrentTab /\ (batch_start = 0 => DispatchedTab = InitialTab)
             ELSE InNewTab]_vars

\* the two urls of a second batch are dispatched: the first one in a tab the
\* first batch left open, the second one in a new tab
C34_Witness ==
    /\ fpc = "dispatch"
    /\ batch_start > 0
    /\ Len(batch) = 2
    /\ dispatched = 2
    /\ DOMAIN tab_dispatch_times = Range(batch)
    /\ \E h \in DOMAIN tab_url_map : h <= batch_start /\ tab_url_map[h] = batch[1]
    /\ \E h \in DOMAIN tab_url_map : h = opened /\ tab_url_map[h] = batch[2]

\* a step that ends the session: BACKEND.stop_tor() on a running session, or
\* _check_tor_timeout finding it expired
SessionEnds == is_tor_running(tor) /\ ~is_tor_running(tor')

\* C35: after stop or idle-timeout detection every field of the session is
\* cleared: process handle, proxy port, control port, start timestamp, bound
\* browser-bundle path and bound profile path, in the module's globals and in
\* the backend's copies of them.
C35_SessionCleared ==
    [][SessionEnds => tor' = NoTor /\ backend' = NoTor]_vars

\* the errors get_sources raises on its argument, before it takes the lock
QueryErrors == {"no_queries", "too_many_queries"}

\* the session that the last get_sources call to take the lock started is
\* running, and that call returned successfully
Servable ==
    /\ lastSearch.ok
    /\ Running
    /\ \A t \in Callers : pc[t] # "fsp_fetch"

\* a fetch_pages call that makes its checks in a state that is not servable is
\* rejected and fetches nothing
RejectedUnlessServable ==
    \A t \in Callers :
        (Leaves(t, "fp_check") /\ ~Servable) =>
            /\ pc'[t] = "idle"
            /\ ret'.caller = t /\ ret'.op = "fetch_pages"
            /\ ret'.result \notin {"ok", "fetch_raised"}
            /\ fetchRuns' = fetchRuns

\* the state becomes servable only with the successful return of a get_sources
\* call, and stays so only with the session left as it is
ServableSinceSearch ==
    /\ (~Servable /\ Servable') => (Returned("get_sources", "ok")' /\ UNCHANGED tor)
    /\ (Servable /\ Servable') => UNCHANGED tor

\* the fetch runs in a servable state only, on the result set of that search
FetchOnlyWhenServable ==
    \A t \in Callers :
        pc[t] = "fp_fetch" =>
            /\ Servable
            /\ last_search_results = Indexed(lastSearch.urls)
            /\ frame[t].urls_to_fetch # <<>>
            /\ Range(frame[t].urls_to_fetch) \subseteq Range(lastSearch.urls)

\* C36: fetch_pages runs the fetch only against the session started by the most
\* recent get_sources call, and only if that call returned successfully: after
\* a get_sources call that raised, after a fetch_specific_page call and after an
\* idle-timeout rejection every fetch_pages call is rejected until another
\* get_sources call succeeds.
C36_OnlyLiveGeneration ==
    /\ [](FetchOnlyWhenServable
          /\ ((ret.op = "get_sources" /\ ret.result # "ok") => ~Servable)
          /\ (ret.op = "fetch_specific_page" => ~Servable)
          /\ (Returned("fetch_pages", "tor_timeout") => ~Servable))
    /\ [][ServableSinceSearch /\ RejectedUnlessServable]_vars

\* C36, amended: as C36, for the get_sources calls that raised after taking
\* the lock (start failure, search failure); a get_sources call rejected for
\* its argument has no effect, and a fetch_pages call after it is served as
\* if it had not been made.
C36_OnlyLiveGenerationPastValidation ==
    /\ [](FetchOnlyWhenServable
          /\ ((ret.op = "get_sources" /\ ret.result \notin QueryErrors \cup {"ok"})
                 => ~Servable)
          /\ (ret.op = "fetch_specific_page" => ~Servable)
          /\ (Returned("fetch_pages", "tor_timeout") => ~Servable))
    /\ [][/\ ServableSinceSearch
          /\ RejectedUnlessServable
          /\ (ret'.op = "get_sources" /\ ret'.result \in QueryErrors) =>
                 UNCHANGED <<session, generation, state_lock, fetchRuns, lastSearch>>]_vars

\* a get_sources call raised with the result set partly built, the set not
\* fetched, and the fetch_pages call after it was rejected
C36_Witness ==
    /\ Returned("fetch_pages", "tor_timeout")
    /\ ~lastSearch.ok
    /\ last_search_results # <<>>
    /\ ~fetch_pages_called
    /\ ~Running

\* the session is not running, or started more than the keepalive ago
IdleTimedOut == ~Running \/ ~WithinKeepalive

\* the index lists with an index that is not stored
InvalidIndexLists ==
    {ix \in IndexLists : \E i \in DOMAIN ix : ix[i] \notin valid_indexes(last_search_results)}

\* how the checks of caller t ended: the error raised, or "fetch" ...
CheckResult(t) == IF pc'[t] = "fp_fetch" THEN "fetch" ELSE ret'.result

\* ... and the indexes they were made on, for a result that depends on them
CheckedIndexes(t) == IF pc'[t] = "fp_fetch" THEN frame'[t].indexes ELSE ret'.arg[1]

\* the first of the five checks that fails decides how the checks of t end
FirstFailingCheck(t) ==
    IF last_search_results = <<>>
    THEN CheckResult(t) = "no_search_results" /\ UNCHANGED tor
    ELSE IF fetch_pages_called
    THEN CheckResult(t) = "already_fetched" /\ UNCHANGED tor
    ELSE IF IdleTimedOut
    THEN CheckResult(t) = "tor_timeout" /\ ~Running'
    ELSE /\ CheckResult(t) \in IndexErrors \cup {"fetch"}
         /\ UNCHANGED tor
         /\ CheckResult(t) = "too_many_indexes" <=> Len(CheckedIndexes(t)) > MAX_PAGES
         /\ CheckResult(t) = "invalid_index" <=>
                /\ Len(CheckedIndexes(t)) <= MAX_PAGES
                /\ Range(CheckedIndexes(t)) \ valid_indexes(last_search_results) # {}

\* C37: fetch_pages makes its checks in a fixed order (empty result set, already
\* fetched, idle timeout, number of indexes, indexes stored) and the first one
\* that fails decides the error: a second call on a fetched generation reports
\* already-fetched and not the timeout although the session is gone; a call with
\* invalid indexes on an expired session reports the timeout and stops the
\* session.
C37_CheckOrder ==
    /\ [](\A ix \in InvalidIndexLists :
            FetchPagesCheck(last_search_results, fetch_pages_called, tor, now, ix) =
                IF last_search_results = <<>> THEN "no_search_results"
                ELSE IF fetch_pages_called THEN "already_fetched"
                ELSE IF IdleTimedOut THEN "tor_timeout"
                ELSE IF Len(ix) > MAX_PAGES THEN "too_many_indexes"
                ELSE "invalid_index")
    /\ [][\A t \in Callers :
            Leaves(t, "fp_check") =>
               /\ ret'.caller = t \/ pc'[t] = "fp_fetch"
               /\ FirstFailingCheck(t)]_vars

\* the second fetch_pages call on a fetched generation, its session stopped by
\* the first, was told already-fetched
C37_Witness ==
    /\ Returned("fetch_pages", "already_fetched")
    /\ fetchRuns = 1
    /\ ~Running
    /\ IdleTimedOut

\* a fetch_pages call on a stored generation not fetched, its session expired,
\* was told of the timeout, and the session is stopped
C37_WitnessExpired ==
    /\ Returned("fetch_pages", "tor_timeout")
    /\ lastSearch.ok
    /\ ~fetch_pages_called
    /\ backend.tor_start_time # None
    /\ now - backend.tor_start_time[1] > TOR_KEEPALIVE_SECONDS
    /\ InvalidIndexLists # {}
    /\ ~Running

(***************************************************************************)
(* The two locks, statement by statement: "with _state_lock:" around the   *)
(* body of each tool, "with self._lock:" inside BACKEND.start_tor and      *)
(* BACKEND.stop_tor.  What the tools compute is left out; each body ends   *)
(* by return or by an exception.                                           *)
(***************************************************************************)
Tools == {"get_sources", "fetch_pages", "fetch_specific_page"}

\* how a call ends: by return, by an error raised by a check, by an exception
Exits == {"return", "validation_error", "exception"}

\* where a call waits for _state_lock, and where it is once it holds it
WaitPc == [get_sources |-> "gs_wait", fetch_pages |-> "fp_wait", fetch_specific_page |-> "fsp_wait"]
LockEntry == [gs_wait |-> "gs_entry", fp_wait |-> "fp_check", fsp_wait |-> "fsp_entry"]

\* "if BACKEND.is_tor_running(): BACKEND.stop_tor()" ahead of the try block, and
\* the start that follows it
EntryStop == [gs_entry |-> "gs_entry_stop", fsp_entry |-> "fsp_entry_stop"]
EntryStopPcs == {EntryStop[p] : p \in DOMAIN EntryStop}
AfterEntry == [gs_entry |-> "gs_try", fsp_entry |-> "fsp_try",
               gs_entry_stop |-> "gs_try", fsp_entry_stop |-> "fsp_try"]

\* BACKEND.start_tor() in the try block: inside its lock, and where the call
\* goes on when _start_tor returned and when it raised
TryStart == [gs_try |-> "gs_try_start", fsp_try |-> "fsp_try_start"]
Started == [gs_try_start |-> "gs_search", fsp_try_start |-> "fsp_fetch"]
StartFailed == [gs_try_start |-> "gs_except", fsp_try_start |-> "fsp_finally_exc"]

\* the rest of the try block, and where the call goes on when it raised
\* (get_sources has no finally clause: its return leaves the with block)
BodyRaised == [gs_search |-> "gs_except", fp_fetch |-> "fp_finally_exc",
               fsp_fetch |-> "fsp_finally_exc"]
BodyReturned == [fp_fetch |-> "fp_finally", fsp_fetch |-> "fsp_finally"]

\* BACKEND.stop_tor() of an except or finally clause: inside its lock, and how
\* the with block is left after it
LastStop == [gs_except |-> "gs_except_stop", fp_finally |-> "fp_finally_stop",
             fp_finally_exc |-> "fp_finally_exc_stop", fsp_finally |-> "fsp_finally_stop",
             fsp_finally_exc |-> "fsp_finally_exc_stop"]
ExitAfterStop == [gs_except_stop |-> "exception", fp_finally_stop |-> "return",
                  fp_finally_exc_stop |-> "exception", fsp_finally_stop |-> "return",
                  fsp_finally_exc_stop |-> "exception"]

\* the tool a caller inside a with block is in
ToolAt(p) ==
    IF p \in {"gs_entry", "gs_entry_stop", "gs_try", "gs_try_start", "gs_search", "gs_except",
              "gs_except_stop"} THEN "get_sources"
    ELSE IF p \in {"fp_check", "fp_fetch", "fp_finally", "fp_finally_exc", "fp_finally_stop",
                   "fp_finally_exc_stop"} THEN "fetch_pages"
    ELSE "fetch_specific_page"

\* the variables the locks do not depend on
lockRest == <<last_search_results, fetch_pages_called, now, frame, fetchRuns, lastSearch,
              prevFetch, liveTor, orchestrator, indexer>>

\* (variant: an exception leaves the lock held)
with_exit_leak(how) == how = "exception"

\* "with _state_lock:" is left by return or by an exception: __exit__ releases
\* the lock either way
with_exit(how) == FALSE

\* caller t leaves the with block of its tool, and the call ends
LeaveLocked(t, how) ==
    /\ pc' = [pc EXCEPT ![t] = "idle"]
    /\ ret' = [NoRet EXCEPT !.caller = t, !.op = ToolAt(pc[t]), !.result = how]
    /\ state_lock' = with_exit(how)

\* a tool is called: get_sources checks its argument ahead of the lock
LkCall(t) ==
    /\ pc[t] = "idle"
    /\ \E op \in Tools :
         \/ /\ op = "get_sources"
            /\ ret' = [NoRet EXCEPT !.caller = t, !.op = op, !.result = "validation_error"]
            /\ UNCHANGED pc
         \/ /\ pc' = [pc EXCEPT ![t] = WaitPc[op]]
            /\ ret' = NoRet
    /\ UNCHANGED <<session, state_lock, backend_lock, lockRest>>

\* "with _state_lock:" is entered
LkAcquire(t) ==
    /\ pc[t] \in DOMAIN LockEntry
    /\ acquire(state_lock)
    /\ state_lock' = TRUE
    /\ pc' = [pc EXCEPT ![t] = LockEntry[pc[t]]]
    /\ ret' = NoRet
    /\ UNCHANGED <<session, backend_lock, lockRest>>

\* "if BACKEND.is_tor_running(): BACKEND.stop_tor()": with a session running
\* stop_tor is called and enters "with self._lock:"
LkEntry(t) ==
    /\ pc[t] \in DOMAIN EntryStop
    /\ IF is_tor_running(tor)
       THEN /\ acquire(backend_lock)
            /\ backend_lock' = TRUE
            /\ pc' = [pc EXCEPT ![t] = EntryStop[pc[t]]]
       ELSE /\ pc' = [pc EXCEPT ![t] = AfterEntry[pc[t]]]
            /\ UNCHANGED backend_lock
    /\ ret' = NoRet
    /\ UNCHANGED <<session, state_lock, lockRest>>

\* stop_tor inside its lock: _kill_tor(), the backend's fields, the lock released
LkEntryStopped(t) ==
    /\ pc[t] \in EntryStopPcs
    /\ tor' = kill_tor(tor)
    /\ backend' = backend_stop_tor(backend)
    /\ backend_lock' = FALSE
    /\ pc' = [pc EXCEPT ![t] = AfterEntry[pc[t]]]
    /\ ret' = NoRet
    /\ UNCHANGED <<state_lock, lockRest>>

\* BACKEND.start_tor() enters "with self._lock:"
LkStart(t) ==
    /\ pc[t] \in DOMAIN TryStart
    /\ acquire(backend_lock)
    /\ backend_lock' = TRUE
    /\ pc' = [pc EXCEPT ![t] = TryStart[pc[t]]]
    /\ ret' = NoRet
    /\ UNCHANGED <<session, state_lock, lockRest>>

\* start_tor inside its lock: _start_tor() returns and the globals are copied,
\* or it raises; the lock is released either way
LkStarted(t) ==
    /\ pc[t] \in DOMAIN Started
    /\ \E o \in StartOutcomes :
         IF o = "ok"
         THEN /\ tor' = start_tor_globals(tor, now)
              /\ backend' = backend_start_tor(backend, tor')
              /\ pc' = [pc EXCEPT ![t] = Started[pc[t]]]
         ELSE /\ pc' = [pc EXCEPT ![t] = StartFailed[pc[t]]]
              /\ UNCHANGED session
    /\ backend_lock' = FALSE
    /\ ret' = NoRet
    /\ UNCHANGED <<state_lock, lockRest>>

\* the checks of fetch_pages: one of them raises, which leaves the with block,
\* or, the session being valid, all pass
LkCheck(t) ==
    /\ pc[t] = "fp_check"
    /\ \/ /\ LeaveLocked(t, "validation_error")
       \/ /\ check_tor_timeout(tor, now)
          /\ pc' = [pc EXCEPT ![t] = "fp_fetch"]
          /\ ret' = NoRet
          /\ UNCHANGED state_lock
    /\ UNCHANGED <<session, backend_lock, lockRest>>

\* the rest of a try block: it raises, or it returns; the return of
\* get_sources leaves the with block
LkBody(t) ==
    /\ pc[t] \in DOMAIN BodyRaised
    /\ \/ /\ pc' = [pc EXCEPT ![t] = BodyRaised[pc[t]]]
          /\ ret' = NoRet
          /\ UNCHANGED state_lock
       \/ /\ pc[t] \in DOMAIN BodyReturned
          /\ pc' = [pc EXCEPT ![t] = BodyReturned[pc[t]]]
          /\ ret' = NoRet
          /\ UNCHANGED state_lock
       \/ /\ pc[t] \notin DOMAIN BodyReturned
          /\ LeaveLocked(t, "return")
    /\ UNCHANGED <<session, backend_lock, lockRest>>

\* BACKEND.stop_tor() of an except or finally clause enters "with self._lock:"
LkLastStop(t) ==
    /\ pc[t] \in DOMAIN LastStop
    /\ acquire(backend_lock)
    /\ backend_lock' = TRUE
    /\ pc' = [pc EXCEPT ![t] = LastStop[pc[t]]]
    /\ ret' = NoRet
    /\ UNCHANGED <<session, state_lock, lockRest>>

\* stop_tor inside its lock, as above; the except clause then raises again and
\* the finally clause hands on the return or the exception of its try block,
\* which leaves the with block
LkLastStopped(t) ==
    /\ pc[t] \in DOMAIN ExitAfterStop
    /\ tor' = kill_tor(tor)
    /\ backend' = backend_stop_tor(backend)
    /\ backend_lock' = FALSE
    /\ LeaveLocked(t, ExitAfterStop[pc[t]])
    /\ UNCHANGED lockRest

\* the steps of a caller that holds _state_lock
LkHolder(t) ==
    \/ LkEntry(t)
    \/ LkEntryStopped(t)
    \/ LkStart(t)
    \/ LkStarted(t)
    \/ LkCheck(t)
    \/ LkBody(t)
    \/ LkLastStop(t)
    \/ LkLastStopped(t)

NextLock ==
    \E t \in Callers :
        \/ LkCall(t)
        \/ LkAcquire(t)
        \/ LkHolder(t)

SpecLock == Init /\ [][NextLock]_vars

\* a caller that holds a lock goes on, and a caller that waits for
\* _state_lock gets it when it is free again and again
SpecLockFair ==
    /\ SpecLock
    /\ \A t \in Callers : WF_vars(LkHolder(t)) /\ SF_vars(LkAcquire(t))

\* where a caller holds _state_lock, and where it holds BACKEND._lock as well
HoldsStateLock ==
    {t \in Callers : pc[t] \notin {"idle"} \cup DOMAIN LockEntry}
HoldsBackendLock ==
    {t \in Callers : pc[t] \in EntryStopPcs \cup DOMAIN Started \cup DOMAIN ExitAfterStop}

\* each lock is held exactly while one caller is inside its with block
LocksHeldInside ==
    /\ Cardinality(HoldsStateLock) <= 1
    /\ state_lock <=> HoldsStateLock # {}
    /\ backend_lock <=> HoldsBackendLock # {}
    /\ HoldsBackendLock \subseteq HoldsStateLock

\* some caller inside a call can take a step
CanGoOn == ENABLED <<\E t \in Callers : LkAcquire(t) \/ LkHolder(t)>>_vars

\* a call ends, by return, validation error or exception, with neither lock held
EndsUnlocked ==
    \A t \in Callers :
        (pc[t] # "idle" /\ pc'[t] = "idle") =>
            /\ ret'.caller = t /\ ret'.result \in Exits
            /\ ~state_lock' /\ ~backend_lock'

\* BACKEND._lock is taken with _state_lock held only
InnerUnderOuter == (~backend_lock /\ backend_lock') => (state_lock /\ state_lock')

\* C38: every tool releases _state_lock on every way out (return, validation
\* error, exception); BACKEND._lock is taken only while _state_lock is held; no
\* state is reached in which a call is under way and no caller can take a step;
\* and, the scheduling being fair, every call that waits for _state_lock gets it.
C38_LockDiscipline ==
    /\ [](LocksHeldInside /\ ((\E t \in Callers : pc[t] # "idle") => CanGoOn))
    /\ [][EndsUnlocked /\ InnerUnderOuter]_vars
    /\ \A t \in Callers : (pc[t] \in DOMAIN LockEntry) ~> (t \in HoldsStateLock)

\* a call left its with block by an exception, its session stopped, while the
\* other caller waits for the lock, which is free
C38_Witness ==
    /\ ret.result = "exception"
    /\ \E t \in Callers : pc[t] \in DOMAIN LockEntry
    /\ ~state_lock
    /\ ~backend_lock

\* the session of a get_sources call that returned without a result is running
EmptySearchSession == Servable /\ last_search_results = <<>>

\* C39: after a get_sources call that returned successfully with no result,
\* fetch_pages raises the no-search-results error without making the
\* idle-timeout check, so that the session this search started keeps running,
\* however old, until the next get_sources or fetch_specific_page call.
C39_EmptySearchKeepsSession ==
    /\ []((Returned("get_sources", "ok") /\ lastSearch.urls = <<>>) => EmptySearchSession)
    /\ [][EmptySearchSession =>
            /\ \A t \in Callers :
                  Leaves(t, "fp_check") =>
                     /\ ret'.caller = t /\ Returned("fetch_pages", "no_search_results")'
                     /\ UNCHANGED <<session, generation, fetchRuns>>
            /\ tor' # tor =>
                  \E t \in Callers : pc[t] \in {"gs_start", "fsp_start"} /\ pc'[t] # pc[t]
            /\ EmptySearchSession' \/ \E t \in Callers : pc'[t] # pc[t]]_vars

\* fetch_pages was rejected for the missing results and the session of the
\* search, older than the keepalive, still runs
C39_Witness ==
    /\ Returned("fetch_pages", "no_search_results")
    /\ lastSearch.ok
    /\ Running
    /\ ~WithinKeepalive

\* the stored index of a url
IndexOf(url) == (CHOOSE r \in Range(last_search_results) : r.url = url).index

\* the list of urls passed for the indexes: 1 to MAX_PAGES urls, no url twice,
\* the urls of the indexes asked for and of no other, by ascending index
PassedInOrder(urls, indexes) ==
    /\ Len(urls) \in 1..MAX_PAGES
    /\ \A j, k \in DOMAIN urls : j # k => urls[j] # urls[k]
    /\ \A k \in DOMAIN urls :
          \E r \in Range(last_search_results) : r.url = urls[k] /\ r.index \in Range(indexes)
    /\ \A r \in Range(last_search_results) : r.index \in Range(indexes) => r.url \in Range(urls)
    /\ \A j, k \in DOMAIN urls : j < k => IndexOf(urls[j]) < IndexOf(urls[k])

\* C40: whenever fetch_pages calls the fetch, the list of urls it passes holds
\* 1 to MAX_PAGES urls, no two the same, each the url of an index asked for in
\* the stored result set, by ascending index, whatever the order of the indexes
\* asked for and however often one is repeated.
C40_UrlsPassed ==
    \A t \in Callers :
        pc[t] = "fp_fetch" => PassedInOrder(frame[t].urls_to_fetch, frame[t].indexes)

\* the indexes were asked for in descending order, and the urls of both are
\* passed
C40_Witness ==
    \E t \in Callers :
        /\ pc[t] = "fp_fetch"
        /\ frame[t].indexes = <<2, 1>>
        /\ Len(frame[t].urls_to_fetch) = 2

\* an index was asked for twice, and its url is passed once
C40_WitnessRepeated ==
    \E t \in Callers :
        /\ pc[t] = "fp_fetch"
        /\ frame[t].indexes = <<1, 1>>
        /\ Len(frame[t].urls_to_fetch) = 1

=============================================================================
